---- MODULE Spec2Model ----
(***************************************************************************)
(* A model of the caching and scoring core of the SpurHacks parking-safety *)
(* backend:                                                                *)
(*   backend/cache_manager.py            CacheManager                      *)
(*   backend/data_processor.py           DataProcessor (geocode cache)     *)
(*   backend/geocoding_service.py        GeocodingService                  *)
(*   backend/enhanced_safety_predictor.py, backend/safety_predictor.py     *)
(*                                                                         *)
(* Time is counted in whole hours.  Scores are counted in hundredths       *)
(* (0.8 is 80).  md5 is taken to be collision free on the model's inputs,  *)
(* so a fingerprint is represented by the text that is hashed.             *)
(***************************************************************************)
EXTENDS Integers, Sequences, FiniteSets, TLC

VARIABLES
    now,            \* datetime.now(), in hours
    files,          \* the tracked source files on disk: path -> stat + content
    safetyDoc,      \* cache/safety_analysis_cache.json
    geoDoc,         \* cache/geocode_cache.json (CacheManager's document)
    metaDoc,        \* cache/cache_metadata.json
    res,            \* the last operation and what it returned
    savedPayload,   \* analysis_data handed to the most recent save
    savedMeta,      \* stat of the tracked files at the most recent save
    changed,        \* a tracked file was changed since the most recent save
    nchanges,       \* number of changes made to the tracked files so far
    sv,             \* position of a save_safety_analysis call in progress
    sc,             \* last call of the scoring functions
    client,         \* GeocodingService.client is not None
    dataset,        \* raw address values of the CSV records
    geocode_cache,  \* DataProcessor.geocode_cache (in memory)
    geocode_file,   \* geocode_cache.json of DataProcessor (on disk)
    call,           \* the last geocode_all_addresses call
    batch,          \* a geocode_addresses_batch call, statement by statement
    procs           \* the DataProcessor of each of several server processes

cacheVars == <<now, files, safetyDoc, geoDoc, metaDoc, res, savedPayload, savedMeta, changed, nchanges, sv>>
scoreVars == <<sc>>
geoVars == <<client, dataset, geocode_cache, geocode_file, call, batch, procs>>
vars == <<now, files, safetyDoc, geoDoc, metaDoc, res, savedPayload, savedMeta, changed, nchanges, sv, sc,
          client, dataset, geocode_cache, geocode_file, call, batch, procs>>

(***************************************************************************)
(* Bounds                                                                  *)
(***************************************************************************)
MaxTime == 2
MaxAgeHours == 1
MaxChanges == 2
MaxAddr == 2
MaxAgeDays == 1
MaxLots == 6

\* timedelta(days=1) in hours
HoursPerDay == 24

(***************************************************************************)
(* Tracked source files                                                    *)
(***************************************************************************)
\* data_files of get_safety_markers, in dict order (file names shortened)
data_files == <<"sample_data/bylaw_infractions.csv", "sample_data/parking_on_street.csv", "sample_data/parking_lots.csv">>
Paths == {data_files[i] : i \in 1..Len(data_files)}

Sizes == {10, 20}
Contents == {"v1", "v2"}
NoFile == [exists |-> FALSE, mtime |-> 0, size |-> 0, content |-> "v1"]

\* os.stat as far as _get_data_hash looks at it
FileMeta(fs) == [p \in Paths |-> [exists |-> fs[p].exists, mtime |-> fs[p].mtime, size |-> fs[p].size]]

RECURSIVE HashContent(_, _, _)
HashContent(fs, paths, i) ==
    IF i > Len(paths) THEN << >>
    ELSE (IF fs[paths[i]].exists
            THEN << <<paths[i], fs[paths[i]].mtime, fs[paths[i]].size>> >>
            ELSE << >>) \o HashContent(fs, paths, i + 1)

\* variant: the size alone is hashed
get_data_hash_size_only(fs, paths) ==
    [i \in 1..Len(HashContent(fs, paths, 1)) |->
        <<HashContent(fs, paths, 1)[i][1], 0, HashContent(fs, paths, 1)[i][3]>>]

get_data_hash(fs, paths) == HashContent(fs, paths, 1)

(***************************************************************************)
(* Addresses and coordinates                                               *)
(***************************************************************************)
\* the address strings, numbered
Addresses == 1..MaxAddr
\* the {'lat', 'lng'} dicts the provider can answer with
Coords == {"c1", "c2"}
\* address -> coordinates maps
GeoMaps == UNION {[S -> Coords] : S \in SUBSET Addresses}
EmptyMap == << >>

(***************************************************************************)
(* Cache documents                                                         *)
(***************************************************************************)
Locations == {"KING ST N"}
Levels == {"safe"}
\* analysis_data: location -> analysis (JSON object with string keys)
Payloads == UNION {[S -> Levels] : S \in SUBSET Locations}
EmptyPayload == << >>

Ok(v) == [st |-> "ok", v |-> v]
Missing(v) == [st |-> "missing", v |-> v]
Malformed(v) == [st |-> "malformed", v |-> v]

Absent == [kind |-> "absent"]
NoneV == [kind |-> "None"]
Value(f) == [kind |-> "value", st |-> f.st, v |-> f.v]

\* cache_entry of save_safety_analysis, as json.dump writes it and json.load reads it back
cache_entry(t, fs, analysis_data) ==
    [kind |-> "object",
     timestamp |-> Ok(t),
     data_hash |-> Ok(get_data_hash(fs, data_files)),
     analysis_data |-> Ok(analysis_data),
     total_locations |-> Ok(Cardinality(DOMAIN analysis_data)),
     cache_version |-> Ok("1.0")]

\* variant: a cache that is exactly max_age old counts as expired
cache_expired_inclusive(t, cache_time, max_age) == t - cache_time >= max_age

\* datetime.now() - cache_time > timedelta(hours=max_age_hours)
cache_expired(t, cache_time, max_age) == t - cache_time > max_age

\* the body of the try block of load_safety_analysis: the exception it raises, or its value
load_safety_body(doc, fs, t, max_age_hours) ==
    IF doc.kind = "absent" THEN [exc |-> "none", ret |-> NoneV]
    ELSE IF doc.kind = "unreadable" THEN [exc |-> "OSError", ret |-> NoneV]
    ELSE IF doc.kind \in {"empty", "partial", "invalid_json"} THEN [exc |-> "JSONDecodeError", ret |-> NoneV]
    ELSE IF doc.kind = "non_object" THEN [exc |-> "TypeError", ret |-> NoneV]
    ELSE IF doc.timestamp.st = "missing" THEN [exc |-> "KeyError", ret |-> NoneV]
    ELSE IF doc.timestamp.st = "malformed" THEN [exc |-> "ValueError", ret |-> NoneV]
    ELSE IF cache_expired(t, doc.timestamp.v, max_age_hours) THEN [exc |-> "none", ret |-> NoneV]
    ELSE IF doc.data_hash # Ok(get_data_hash(fs, data_files)) THEN [exc |-> "none", ret |-> NoneV]
    ELSE IF doc.total_locations.st = "missing" THEN [exc |-> "KeyError", ret |-> NoneV]
    ELSE IF doc.analysis_data.st = "missing" THEN [exc |-> "KeyError", ret |-> NoneV]
    ELSE [exc |-> "none", ret |-> Value(doc.analysis_data)]

\* variant: only I/O and JSON errors are caught
load_safety_analysis_narrow(doc, fs, t, max_age_hours) ==
    LET b == load_safety_body(doc, fs, t, max_age_hours)
    IN  IF b.exc \in {"OSError", "JSONDecodeError"} THEN [raised |-> "none", ret |-> NoneV]
        ELSE [raised |-> b.exc, ret |-> b.ret]

\* load_safety_analysis: except Exception -> print, return None
load_safety_analysis(doc, fs, t, max_age_hours) ==
    LET b == load_safety_body(doc, fs, t, max_age_hours)
    IN  IF b.exc # "none" THEN [raised |-> "none", ret |-> NoneV]
        ELSE [raised |-> "none", ret |-> b.ret]

\* cache_entry of save_geocoded_addresses
geo_cache_entry(t, geocoded_data) ==
    [kind |-> "object",
     timestamp |-> Ok(t),
     geocoded_addresses |-> Ok(geocoded_data),
     total_addresses |-> Ok(Cardinality(DOMAIN geocoded_data)),
     cache_version |-> Ok("1.0")]

\* datetime.now() - cache_time > timedelta(days=max_age_days)
geo_cache_expired(t, cache_time, max_age_days) == t - cache_time > max_age_days * HoursPerDay

\* the body of the try block of load_geocoded_addresses
load_geocoded_body(doc, t, max_age_days) ==
    IF doc.kind = "absent" THEN [exc |-> "none", ret |-> NoneV]
    ELSE IF doc.kind = "unreadable" THEN [exc |-> "OSError", ret |-> NoneV]
    ELSE IF doc.kind \in {"empty", "partial", "invalid_json"} THEN [exc |-> "JSONDecodeError", ret |-> NoneV]
    ELSE IF doc.kind = "non_object" THEN [exc |-> "TypeError", ret |-> NoneV]
    ELSE IF doc.timestamp.st = "missing" THEN [exc |-> "KeyError", ret |-> NoneV]
    ELSE IF doc.timestamp.st = "malformed" THEN [exc |-> "ValueError", ret |-> NoneV]
    ELSE IF geo_cache_expired(t, doc.timestamp.v, max_age_days) THEN [exc |-> "none", ret |-> NoneV]
    ELSE IF doc.total_addresses.st = "missing" THEN [exc |-> "KeyError", ret |-> NoneV]
    ELSE IF doc.geocoded_addresses.st = "missing" THEN [exc |-> "KeyError", ret |-> NoneV]
    ELSE [exc |-> "none", ret |-> Value(doc.geocoded_addresses)]

\* load_geocoded_addresses: except Exception -> print, return None
load_geocoded_addresses(doc, t, max_age_days) ==
    LET b == load_geocoded_body(doc, t, max_age_days)
    IN  IF b.exc # "none" THEN [raised |-> "none", ret |-> NoneV]
        ELSE [raised |-> "none", ret |-> b.ret]

\* _update_metadata: metadata[cache_type] = {last_updated, file_path}
update_metadata(meta, cache_type, t) ==
    [c \in DOMAIN meta \cup {cache_type} |-> IF c = cache_type THEN t ELSE meta[c]]

NoRes == [op |-> "none", ret |-> NoneV, raised |-> "none", max_age |-> 0, before |-> Absent]
Idle == [pc |-> "idle", entry |-> Absent, prev |-> Absent]
NoScore == [op |-> "none"]
NoCall == [op |-> "none", force |-> FALSE, requested |-> {}, failed |-> {}, n |-> 0]
NoBatch == [pc |-> "none"]
NoProcs == << >>

(***************************************************************************)
(* The cache life cycle: Spec                                              *)
(***************************************************************************)
InitFiles == [p \in Paths |-> [exists |-> TRUE, mtime |-> 0, size |-> 10, content |-> "v1"]]

\* CacheManager() on an empty cache directory, at hour 0
CacheInit ==
    /\ now = 0
    /\ files = InitFiles
    /\ safetyDoc = Absent
    /\ geoDoc = Absent
    /\ metaDoc = << >>
    /\ res = NoRes
    /\ savedPayload = EmptyPayload
    /\ savedMeta = FileMeta(files)
    /\ changed = FALSE
    /\ nchanges = 0
    /\ sv = Idle

ScoreInit == sc = NoScore

GeoInit ==
    /\ client = FALSE
    /\ dataset = {}
    /\ geocode_cache = EmptyMap
    /\ geocode_file = Absent
    /\ call = NoCall
    /\ batch = NoBatch
    /\ procs = NoProcs

Init == CacheInit /\ ScoreInit /\ GeoInit

\* save_safety_analysis(analysis_data, data_files), the write succeeding
SaveSafetyAnalysis ==
    \E p \in Payloads :
        /\ safetyDoc' = cache_entry(now, files, p)
        /\ metaDoc' = update_metadata(metaDoc, "safety_analysis", now)
        /\ savedPayload' = p
        /\ savedMeta' = FileMeta(files)
        /\ changed' = FALSE
        /\ res' = [NoRes EXCEPT !.op = "save_safety_analysis"]
        /\ UNCHANGED <<now, files, geoDoc, nchanges, sv>>
        /\ UNCHANGED scoreVars /\ UNCHANGED geoVars

\* load_safety_analysis(data_files, max_age_hours)
LoadSafetyAnalysis ==
    \E h \in 0..MaxAgeHours :
        /\ res' = [op |-> "load_safety_analysis",
                   ret |-> load_safety_analysis(safetyDoc, files, now, h).ret,
                   raised |-> load_safety_analysis(safetyDoc, files, now, h).raised,
                   max_age |-> h,
                   before |-> safetyDoc]
        /\ UNCHANGED <<now, files, safetyDoc, geoDoc, metaDoc, savedPayload, savedMeta, changed, nchanges, sv>>
        /\ UNCHANGED scoreVars /\ UNCHANGED geoVars

\* the clock advances
Tick ==
    /\ now < MaxTime
    /\ now' = now + 1
    /\ res' = [NoRes EXCEPT !.op = "tick"]
    /\ UNCHANGED <<files, safetyDoc, geoDoc, metaDoc, savedPayload, savedMeta, changed, nchanges, sv>>
    /\ UNCHANGED scoreVars /\ UNCHANGED geoVars

FileChange(p, f, name) ==
    /\ nchanges < MaxChanges
    /\ nchanges' = nchanges + 1
    /\ files' = [files EXCEPT ![p] = f]
    /\ changed' = TRUE
    /\ res' = [NoRes EXCEPT !.op = name]
    /\ UNCHANGED <<now, safetyDoc, geoDoc, metaDoc, savedPayload, savedMeta, sv>>
    /\ UNCHANGED scoreVars /\ UNCHANGED geoVars

\* a touch: only the modification time changes
TouchFile ==
    \E p \in Paths :
        /\ files[p].exists /\ files[p].mtime # now
        /\ FileChange(p, [files[p] EXCEPT !.mtime = now], "touch")

\* a content edit that keeps the length of the file; the write stamps mtime with the clock
EditFile ==
    \E p \in Paths : \E c \in Contents \ {files[p].content} :
        /\ files[p].exists
        /\ FileChange(p, [files[p] EXCEPT !.content = c, !.mtime = now], "edit")

\* an edit that changes the length of the file
ResizeFile ==
    \E p \in Paths : \E s \in Sizes \ {files[p].size} : \E c \in Contents \ {files[p].content} :
        /\ files[p].exists
        /\ FileChange(p, [files[p] EXCEPT !.size = s, !.content = c, !.mtime = now], "resize")

DeleteFile ==
    \E p \in Paths :
        /\ files[p].exists
        /\ FileChange(p, NoFile, "delete")

CreateFile ==
    \E p \in Paths : \E s \in Sizes : \E c \in Contents :
        /\ ~files[p].exists
        /\ FileChange(p, [exists |-> TRUE, mtime |-> now, size |-> s, content |-> c], "create")

Next ==
    \/ SaveSafetyAnalysis
    \/ LoadSafetyAnalysis
    \/ Tick
    \/ TouchFile
    \/ EditFile
    \/ ResizeFile
    \/ DeleteFile
    \/ CreateFile

Spec == Init /\ [][Next]_vars

(***************************************************************************)
(* Claims about the cache life cycle                                       *)
(***************************************************************************)
StoredHashMatches == safetyDoc.data_hash.v = get_data_hash(files, data_files)
IsLoad == res.op = "load_safety_analysis"

\* C1: load_safety_analysis returns the payload of the most recent save iff a
\* document exists, its age is at most max_age_hours (an age equal to max_age is
\* valid) and the fingerprint of the files equals the stored one; else None.
C1_LoadIffValid ==
    IsLoad =>
        res.ret = IF /\ safetyDoc.kind = "object"
                     /\ now - safetyDoc.timestamp.v <= res.max_age
                     /\ StoredHashMatches
                  THEN Value(Ok(savedPayload))
                  ELSE NoneV

\* a load of a non-empty payload whose age is exactly max_age_hours
C1_Witness ==
    /\ IsLoad
    /\ safetyDoc.kind = "object"
    /\ res.max_age > 0
    /\ now - safetyDoc.timestamp.v = res.max_age
    /\ savedPayload # EmptyPayload
    /\ res.ret = Value(Ok(savedPayload))

\* C2 as stated: any change to a tracked file between save and load (content
\* edit, touch, resize, delete, create) changes _get_data_hash, so the load
\* returns None.
C2_AnyChangeInvalidates ==
    (changed /\ safetyDoc.kind = "object") =>
        /\ ~StoredHashMatches
        /\ IsLoad => res.ret = NoneV

\* C2 amended: a change that leaves a tracked file's existence, modification
\* time or size different from what it was at the save changes _get_data_hash,
\* so the load returns None.
C2_MetaChangeInvalidates ==
    (safetyDoc.kind = "object" /\ FileMeta(files) # savedMeta) =>
        /\ ~StoredHashMatches
        /\ IsLoad => res.ret = NoneV

\* a load inside the age window after a touch that changed only one file's mtime
C2_Witness ==
    /\ IsLoad
    /\ safetyDoc.kind = "object"
    /\ now - safetyDoc.timestamp.v <= res.max_age
    /\ \E p \in Paths :
        /\ files[p].exists /\ savedMeta[p].exists
        /\ files[p].size = savedMeta[p].size
        /\ files[p].mtime # savedMeta[p].mtime
        /\ \A q \in Paths \ {p} : FileMeta(files)[q] = savedMeta[q]
    /\ res.ret = NoneV

(***************************************************************************)
(* Loading from an arbitrary disk state: SpecDisk                          *)
(***************************************************************************)
DiskTimes == {0, 1, HoursPerDay + 1}
BrokenDocs == {[kind |-> k] : k \in {"absent", "unreadable", "invalid_json", "non_object"}}
FieldStates(vals, dflt) == {Missing(dflt), Malformed(dflt)} \cup {Ok(v) : v \in vals}

SafetyDocStates ==
    BrokenDocs \cup
    [kind : {"object"},
     timestamp : FieldStates({0, 1}, 0),
     data_hash : FieldStates({get_data_hash(InitFiles, data_files), << >>}, << >>),
     analysis_data : FieldStates(Payloads, EmptyPayload),
     total_locations : FieldStates({0, 1}, 0),
     cache_version : FieldStates({"1.0"}, "")]

GeoDocStates ==
    BrokenDocs \cup
    [kind : {"object"},
     timestamp : FieldStates({0, 1}, 0),
     geocoded_addresses : FieldStates(GeoMaps, EmptyMap),
     total_addresses : FieldStates({0, 1}, 0),
     cache_version : FieldStates({"1.0"}, "")]

InitDisk ==
    /\ now \in DiskTimes
    /\ files = InitFiles
    /\ \/ safetyDoc \in SafetyDocStates /\ geoDoc = Absent
       \/ safetyDoc = Absent /\ geoDoc \in GeoDocStates
    /\ metaDoc = << >>
    /\ res = NoRes
    /\ savedPayload = EmptyPayload
    /\ savedMeta = FileMeta(files)
    /\ changed = FALSE
    /\ nchanges = 0
    /\ sv = Idle
    /\ ScoreInit /\ GeoInit

\* load_geocoded_addresses(max_age_days)
LoadGeocodedAddresses ==
    \E d \in 0..MaxAgeDays :
        /\ res' = [op |-> "load_geocoded_addresses",
                   ret |-> load_geocoded_addresses(geoDoc, now, d).ret,
                   raised |-> load_geocoded_addresses(geoDoc, now, d).raised,
                   max_age |-> d,
                   before |-> geoDoc]
        /\ UNCHANGED <<now, files, safetyDoc, geoDoc, metaDoc, savedPayload, savedMeta, changed, nchanges, sv>>
        /\ UNCHANGED scoreVars /\ UNCHANGED geoVars

NextDisk ==
    \/ LoadSafetyAnalysis
    \/ LoadGeocodedAddresses

SpecDisk == InitDisk /\ [][NextDisk]_vars

IsGeoLoad == res.op = "load_geocoded_addresses"
Defective(doc) == doc.kind # "object" \/ \E k \in DOMAIN doc \ {"kind"} : doc[k].st # "ok"

\* C3 as stated: for every defective state of a cache document (missing,
\* unreadable, invalid JSON, missing or malformed timestamp or other fields) the
\* two load functions return None, do not raise, and leave the document as it was.
C3_DefectiveLoadsNone ==
    /\ (IsLoad /\ Defective(safetyDoc)) =>
          res.ret = NoneV /\ res.raised = "none" /\ res.before = safetyDoc
    /\ (IsGeoLoad /\ Defective(geoDoc)) =>
          res.ret = NoneV /\ res.raised = "none" /\ res.before = geoDoc

\* the defects the load functions run into
SafetyDefectSeen(doc) ==
    \/ doc.kind # "object"
    \/ doc.timestamp.st # "ok"
    \/ doc.data_hash.st # "ok"
    \/ doc.total_locations.st = "missing"
    \/ doc.analysis_data.st = "missing"
GeoDefectSeen(doc) ==
    \/ doc.kind # "object"
    \/ doc.timestamp.st # "ok"
    \/ doc.total_addresses.st = "missing"
    \/ doc.geocoded_addresses.st = "missing"

\* C3 amended: for every state of the documents the two load functions do not
\* raise and leave the document as it was; they return None when the document is
\* missing, unreadable, not JSON, not an object, has no well-formed timestamp
\* (or data_hash), or lacks the count or the payload field.
C3_LoadsNeverRaise ==
    /\ IsLoad =>
          /\ res.raised = "none" /\ res.before = safetyDoc
          /\ SafetyDefectSeen(safetyDoc) => res.ret = NoneV
    /\ IsGeoLoad =>
          /\ res.raised = "none" /\ res.before = geoDoc
          /\ GeoDefectSeen(geoDoc) => res.ret = NoneV

\* a load of a fresh, matching document that lacks total_locations (a KeyError inside)
C3_Witness ==
    /\ IsLoad
    /\ safetyDoc.kind = "object"
    /\ safetyDoc.timestamp.st = "ok"
    /\ ~cache_expired(now, safetyDoc.timestamp.v, res.max_age)
    /\ safetyDoc.data_hash = Ok(get_data_hash(files, data_files))
    /\ safetyDoc.analysis_data.st = "ok"
    /\ safetyDoc.total_locations.st = "missing"
    /\ res.ret = NoneV /\ res.raised = "none"

(***************************************************************************)
(* save_safety_analysis statement by statement, with loads of other        *)
(* requests in between: SpecSave                                           *)
(***************************************************************************)
SaveFrame == UNCHANGED <<now, files, geoDoc, changed, nchanges>> /\ UNCHANGED scoreVars /\ UNCHANGED geoVars

\* lines 44-50: cache_entry is built
SaveBegin ==
    \E p \in Payloads :
        /\ sv.pc = "idle"
        /\ sv' = [pc |-> "open", entry |-> cache_entry(now, files, p), prev |-> safetyDoc]
        /\ res' = [NoRes EXCEPT !.op = "save_begin"]
        /\ UNCHANGED <<safetyDoc, metaDoc, savedPayload, savedMeta>>
        /\ SaveFrame

\* line 53: open(self.safety_cache_file, 'w') truncates the file
SaveOpen ==
    /\ sv.pc = "open"
    /\ safetyDoc' = [kind |-> "empty"]
    /\ sv' = [sv EXCEPT !.pc = "dump"]
    /\ res' = [NoRes EXCEPT !.op = "save_open"]
    /\ UNCHANGED <<metaDoc, savedPayload, savedMeta>>
    /\ SaveFrame

\* line 53: open raises (OSError); line 61 catches it
SaveOpenFails ==
    /\ sv.pc = "open"
    /\ sv' = Idle
    /\ res' = [NoRes EXCEPT !.op = "save_failed"]
    /\ UNCHANGED <<safetyDoc, metaDoc, savedPayload, savedMeta>>
    /\ SaveFrame

\* line 54: json.dump writes the document piece by piece
SaveDumpChunk ==
    /\ sv.pc = "dump"
    /\ safetyDoc.kind = "empty"
    /\ safetyDoc' = [kind |-> "partial"]
    /\ res' = [NoRes EXCEPT !.op = "save_dump"]
    /\ UNCHANGED <<sv, metaDoc, savedPayload, savedMeta>>
    /\ SaveFrame

\* line 54: the last piece is written and the file is closed
SaveDumpDone ==
    /\ sv.pc = "dump"
    /\ safetyDoc.kind = "partial"
    /\ safetyDoc' = sv.entry
    /\ sv' = [sv EXCEPT !.pc = "metadata"]
    /\ savedPayload' = sv.entry.analysis_data.v
    /\ savedMeta' = FileMeta(files)
    /\ res' = [NoRes EXCEPT !.op = "save_dumped"]
    /\ UNCHANGED <<metaDoc>>
    /\ SaveFrame

\* line 54: json.dump or the write raises part way; line 61 catches it
SaveDumpFails ==
    /\ sv.pc = "dump"
    /\ sv' = Idle
    /\ res' = [NoRes EXCEPT !.op = "save_failed"]
    /\ UNCHANGED <<safetyDoc, metaDoc, savedPayload, savedMeta>>
    /\ SaveFrame

\* line 57: _update_metadata, then the call returns
SaveMetadata ==
    /\ sv.pc = "metadata"
    /\ metaDoc' = update_metadata(metaDoc, "safety_analysis", sv.entry.timestamp.v)
    /\ sv' = Idle
    /\ res' = [NoRes EXCEPT !.op = "save_safety_analysis"]
    /\ UNCHANGED <<safetyDoc, savedPayload, savedMeta>>
    /\ SaveFrame

NextSave ==
    \/ SaveBegin
    \/ SaveOpen
    \/ SaveOpenFails
    \/ SaveDumpChunk
    \/ SaveDumpDone
    \/ SaveDumpFails
    \/ SaveMetadata
    \/ LoadSafetyAnalysis
    \/ Tick

SpecSave == Init /\ [][NextSave]_vars

\* C4: the safety cache document on disk is at every point either the complete
\* previous document or the complete new one, never empty or partial, also when
\* a save fails part way or a load runs during a save.
C4_AtomicDocument ==
    /\ safetyDoc.kind \in {"absent", "object"}
    /\ sv.pc # "idle" => safetyDoc \in {sv.prev, sv.entry}
    /\ IsLoad => res.before.kind \in {"absent", "object"}

(***************************************************************************)
(* The scoring functions: SpecScore.  Scores and deltas are in hundredths. *)
(***************************************************************************)
Min(a, b) == IF a < b THEN a ELSE b
Max(a, b) == IF a > b THEN a ELSE b

\* variant: the sum is returned as it is
clamp_none(x) == x

\* line 562: max(0.0, min(1.0, final_score))
clamp(x) == Max(0, Min(100, x))

\* parking_cost_info as the score function reads it: '' | 'Unknown' | 'FREE' |
\* a text float() accepts once '$' and '/hr' are removed (its value in cents) |
\* any other text
CostInfos ==
    {[kind |-> k, cents |-> 0] : k \in {"", "Unknown", "FREE", "text"}}
    \cup {[kind |-> "rate", cents |-> c] : c \in {-100, 0, 200}}
\* 'restrictions' as the score function reads it: empty | 'Unknown' | a text
\* containing FREE | a text containing 2HR, 1HR or 30MIN but not FREE | another text
RestrictionInfos == {"", "Unknown", "FREE", "2HR", "1HR", "30MIN", "other"}

\* variant: the thresholds 50, 20 and 5 belong to the higher tier
infraction_penalty_inclusive(total_count) ==
    IF total_count > 0
    THEN IF total_count >= 50 * 30 THEN [delta |-> -30, reasoning |-> <<"high_infraction_rate">>]
         ELSE IF total_count >= 20 * 30 THEN [delta |-> -20, reasoning |-> <<"moderate_infraction_rate">>]
         ELSE IF total_count >= 5 * 30 THEN [delta |-> -10, reasoning |-> <<"low_infraction_rate">>]
         ELSE [delta |-> 0, reasoning |-> <<"very_low_infraction_rate">>]
    ELSE [delta |-> 10, reasoning |-> <<"no_infractions">>]

\* lines 497-514, total_count / 30 compared with 50, 20 and 5
infraction_penalty(total_count) ==
    IF total_count > 0
    THEN IF total_count > 50 * 30 THEN [delta |-> -30, reasoning |-> <<"high_infraction_rate">>]
         ELSE IF total_count > 20 * 30 THEN [delta |-> -20, reasoning |-> <<"moderate_infraction_rate">>]
         ELSE IF total_count > 5 * 30 THEN [delta |-> -10, reasoning |-> <<"low_infraction_rate">>]
         ELSE [delta |-> 0, reasoning |-> <<"very_low_infraction_rate">>]
    ELSE [delta |-> 10, reasoning |-> <<"no_infractions">>]

\* lines 519-522
free_parking_bonus(street) ==
    IF street.has_street_parking /\ street.free_parking_details
    THEN [delta |-> 15, reasoning |-> <<"free_parking">>]
    ELSE [delta |-> 0, reasoning |-> << >>]

\* lines 525-533
paid_parking_penalty(street) ==
    IF /\ street.has_street_parking
       /\ street.parking_cost_info.kind \notin {"", "Unknown", "FREE"}
       /\ street.parking_cost_info.kind = "rate"
       /\ street.parking_cost_info.cents > 0
    THEN [delta |-> -10, reasoning |-> <<"paid_parking">>]
    ELSE [delta |-> 0, reasoning |-> << >>]

\* lines 536-543
time_restriction_bonus(street) ==
    IF street.has_street_parking /\ street.restrictions \notin {"", "Unknown"}
    THEN IF street.restrictions = "FREE" THEN [delta |-> 10, reasoning |-> <<"free_hours">>]
         ELSE IF street.restrictions \in {"2HR", "1HR", "30MIN"} THEN [delta |-> 5, reasoning |-> <<"time_limited">>]
         ELSE [delta |-> 0, reasoning |-> << >>]
    ELSE [delta |-> 0, reasoning |-> << >>]

\* variant: two hundredths for every lot, without the cap
availability_bonus_uncapped(lots) ==
    IF lots.available_lots > 0
    THEN [delta |-> lots.available_lots * 2, reasoning |-> <<"nearby_lots">>]
    ELSE [delta |-> 0, reasoning |-> << >>]

\* lines 546-549
availability_bonus(lots) ==
    IF lots.available_lots > 0
    THEN [delta |-> Min(10, lots.available_lots * 2), reasoning |-> <<"nearby_lots">>]
    ELSE [delta |-> 0, reasoning |-> << >>]

\* lines 552-558
enforcement_risk(recent_count) ==
    IF recent_count > 10 THEN [delta |-> -15, reasoning |-> <<"high_enforcement">>]
    ELSE IF recent_count > 5 THEN [delta |-> -5, reasoning |-> <<"moderate_enforcement">>]
    ELSE [delta |-> 0, reasoning |-> << >>]

\* _calculate_comprehensive_safety_score
calculate_comprehensive_safety_score(infraction_analysis, street_analysis, lot_analysis) ==
    LET ip == infraction_penalty(infraction_analysis.total_count)
        fb == free_parking_bonus(street_analysis)
        pp == paid_parking_penalty(street_analysis)
        tb == time_restriction_bonus(street_analysis)
        ab == availability_bonus(lot_analysis)
        er == enforcement_risk(infraction_analysis.recent_count)
        score_factors ==
            [infraction_penalty |-> ip.delta,
             time_restriction_bonus |-> tb.delta,
             free_parking_bonus |-> fb.delta,
             paid_parking_penalty |-> pp.delta,
             availability_bonus |-> ab.delta,
             enforcement_risk |-> er.delta]
        final_score == clamp(50 + ip.delta + tb.delta + fb.delta + pp.delta + ab.delta + er.delta)
    IN  [safety_score |-> final_score,
         score_breakdown |-> score_factors,
         reasoning |-> ip.reasoning \o fb.reasoning \o pp.reasoning \o tb.reasoning
                       \o ab.reasoning \o er.reasoning,
         raw_score |-> final_score]

\* variant: 0.8 itself is not yet very_safe
determine_safety_level_exclusive(safety_score) ==
    IF safety_score > 80 THEN "very_safe"
    ELSE IF safety_score >= 60 THEN "safe"
    ELSE IF safety_score >= 40 THEN "moderate"
    ELSE IF safety_score >= 20 THEN "risky"
    ELSE "dangerous"

\* EnhancedSafetyPredictor._determine_safety_level
determine_safety_level(safety_score) ==
    IF safety_score >= 80 THEN "very_safe"
    ELSE IF safety_score >= 60 THEN "safe"
    ELSE IF safety_score >= 40 THEN "moderate"
    ELSE IF safety_score >= 20 THEN "risky"
    ELSE "dangerous"

\* SafetyPredictor._determine_safety_level
SafetyPredictor_determine_safety_level(safety_score) ==
    IF safety_score >= 80 THEN "very_safe"
    ELSE IF safety_score >= 60 THEN "safe"
    ELSE IF safety_score >= 40 THEN "moderate"
    ELSE IF safety_score >= 20 THEN "risky"
    ELSE "dangerous"

TotalCounts == {0, 1, 150, 151, 600, 601, 1500, 1501}
RecentCounts == {0, 5, 6, 10, 11}

ScoreInputs ==
    [op : {"score_input"},
     infraction_analysis : [total_count : TotalCounts, recent_count : RecentCounts],
     street_analysis : [has_street_parking : BOOLEAN, free_parking_details : BOOLEAN,
                        parking_cost_info : CostInfos, restrictions : RestrictionInfos],
     lot_analysis : [available_lots : 0..MaxLots]]
LevelInputs == [op : {"level_input"}, s1 : 0..100, s2 : 0..100]

\* the arguments of one call
InitScore ==
    /\ CacheInit /\ GeoInit
    /\ sc \in ScoreInputs \cup LevelInputs

\* _calculate_comprehensive_safety_score(infraction_analysis, street_analysis, lot_analysis)
CalculateScore ==
    /\ sc.op = "score_input"
    /\ sc' = [op |-> "score",
              infraction_analysis |-> sc.infraction_analysis,
              street_analysis |-> sc.street_analysis,
              lot_analysis |-> sc.lot_analysis,
              out |-> calculate_comprehensive_safety_score(
                          sc.infraction_analysis, sc.street_analysis, sc.lot_analysis)]
    /\ UNCHANGED cacheVars /\ UNCHANGED geoVars

\* _determine_safety_level of both predictors, on two scores
DetermineLevel ==
    /\ sc.op = "level_input"
    /\ sc' = [op |-> "level", s1 |-> sc.s1, s2 |-> sc.s2,
              enhanced1 |-> determine_safety_level(sc.s1),
              enhanced2 |-> determine_safety_level(sc.s2),
              simple1 |-> SafetyPredictor_determine_safety_level(sc.s1),
              simple2 |-> SafetyPredictor_determine_safety_level(sc.s2)]
    /\ UNCHANGED cacheVars /\ UNCHANGED geoVars

NextScore ==
    \/ CalculateScore
    \/ DetermineLevel

SpecScore == InitScore /\ [][NextScore]_vars

SumOfDeltas(b) ==
    b.infraction_penalty + b.time_restriction_bonus + b.free_parking_bonus
    + b.paid_parking_penalty + b.availability_bonus + b.enforcement_risk

\* C5: the score returned by _calculate_comprehensive_safety_score is in [0, 1]
\* for every combination of the three analyses.
C5_ScoreInUnitInterval ==
    sc.op = "score" => (0 <= sc.out.safety_score /\ sc.out.safety_score <= 100)

\* a combination whose deltas sum below -0.5, scored 0.0
C5_Witness ==
    /\ sc.op = "score"
    /\ 50 + SumOfDeltas(sc.out.score_breakdown) < 0
    /\ sc.out.safety_score = 0

\* the reasoning strings of the infraction factor
InfractionReasons ==
    {"high_infraction_rate", "moderate_infraction_rate", "low_infraction_rate",
     "very_low_infraction_rate", "no_infractions"}

\* C20: with rate = total_count / 30 the infraction delta is -0.3 for rate > 50,
\* -0.2 for 20 < rate <= 50, -0.1 for 5 < rate <= 20, +0.1 for no infraction
\* and 0 otherwise, each case with exactly one reasoning string; no infraction
\* and no parking data give score 0.6, level safe and the "no infractions"
\* message.
C20_InfractionTiers ==
    sc.op = "score" =>
        LET total == sc.infraction_analysis.total_count
            out == sc.out
        IN  /\ out.score_breakdown.infraction_penalty =
                  IF total > 50 * 30 THEN -30
                  ELSE IF total > 20 * 30 THEN -20
                  ELSE IF total > 5 * 30 THEN -10
                  ELSE IF total = 0 THEN 10
                  ELSE 0
            /\ Cardinality({j \in 1..Len(out.reasoning) : out.reasoning[j] \in InfractionReasons}) = 1
            /\ (/\ total = 0 /\ sc.infraction_analysis.recent_count = 0
                /\ ~sc.street_analysis.has_street_parking
                /\ sc.lot_analysis.available_lots = 0) =>
                  /\ out.safety_score = 60
                  /\ determine_safety_level(out.safety_score) = "safe"
                  /\ out.reasoning = <<"no_infractions">>

\* a location with 1500 infractions (rate exactly 50) and others factors at work
C20_Witness ==
    /\ sc.op = "score"
    /\ sc.infraction_analysis.total_count = 50 * 30
    /\ sc.out.score_breakdown.infraction_penalty = -20
    /\ Len(sc.out.reasoning) > 1

\* the reasoning strings each delta of score_breakdown can emit
ReasonsOf ==
    [infraction_penalty |-> InfractionReasons,
     free_parking_bonus |-> {"free_parking"},
     paid_parking_penalty |-> {"paid_parking"},
     time_restriction_bonus |-> {"free_hours", "time_limited"},
     availability_bonus |-> {"nearby_lots"},
     enforcement_risk |-> {"high_enforcement", "moderate_enforcement"}]
\* the factor a reasoning string belongs to: 1 infraction, 2 street parking,
\* 3 lots, 4 enforcement
FactorOf(reason) ==
    IF reason \in ReasonsOf.infraction_penalty THEN 1
    ELSE IF reason \in ReasonsOf.free_parking_bonus \cup ReasonsOf.paid_parking_penalty
                       \cup ReasonsOf.time_restriction_bonus THEN 2
    ELSE IF reason \in ReasonsOf.availability_bonus THEN 3
    ELSE 4
CountOf(reasoning, reasons) ==
    Cardinality({j \in 1..Len(reasoning) : reasoning[j] \in reasons})

\* C21: the safety score is 0.5 plus the sum of the six deltas of score_breakdown,
\* clamped to [0,1]; the lot delta is min(0.1, 0.02 x lot_count); every nonzero
\* delta has exactly one reasoning string, and the strings come in the order
\* infraction, street parking, lots, enforcement.
C21_ScoreIsClampedSum ==
    sc.op = "score" =>
        LET out == sc.out
            b == out.score_breakdown
            lot_count == sc.lot_analysis.available_lots
        IN  /\ DOMAIN b = DOMAIN ReasonsOf
            /\ out.safety_score = Max(0, Min(100, 50 + SumOfDeltas(b)))
            /\ b.availability_bonus = Min(10, 2 * lot_count)
            /\ \A f \in DOMAIN b : b[f] # 0 => CountOf(out.reasoning, ReasonsOf[f]) = 1
            /\ \A i, j \in 1..Len(out.reasoning) :
                   i < j => FactorOf(out.reasoning[i]) <= FactorOf(out.reasoning[j])

\* six lots, capped at 0.1, in a call where all four factors speak
C21_Witness ==
    /\ sc.op = "score"
    /\ sc.lot_analysis.available_lots = 6
    /\ sc.out.score_breakdown.availability_bonus = 10
    /\ {FactorOf(sc.out.reasoning[j]) : j \in 1..Len(sc.out.reasoning)} = {1, 2, 3, 4}
    /\ sc.out.safety_score = 50 + SumOfDeltas(sc.out.score_breakdown)

\* the table of the claim
LevelOf(s) ==
    CASE s >= 80 -> "very_safe"
      [] s >= 60 /\ s < 80 -> "safe"
      [] s >= 40 /\ s < 60 -> "moderate"
      [] s >= 20 /\ s < 40 -> "risky"
      [] s < 20 -> "dangerous"
Rank(l) ==
    CASE l = "dangerous" -> 0 [] l = "risky" -> 1 [] l = "moderate" -> 2
      [] l = "safe" -> 3 [] l = "very_safe" -> 4

\* C6: both _determine_safety_level functions map a score in [0,1] to very_safe
\* from 0.8, safe from 0.6, moderate from 0.4, risky from 0.2, else dangerous;
\* they agree on every score, and a higher score never has a worse level.
C6_LevelTable ==
    sc.op = "level" =>
        /\ sc.enhanced1 = LevelOf(sc.s1) /\ sc.enhanced2 = LevelOf(sc.s2)
        /\ sc.simple1 = sc.enhanced1 /\ sc.simple2 = sc.enhanced2
        /\ sc.s1 <= sc.s2 => Rank(sc.enhanced1) <= Rank(sc.enhanced2)
        /\ sc.s1 <= sc.s2 => Rank(sc.simple1) <= Rank(sc.simple2)

\* the two sides of the 0.8 threshold
C6_Witness ==
    /\ sc.op = "level"
    /\ sc.s1 = 79 /\ sc.enhanced1 = "safe" /\ sc.simple1 = "safe"
    /\ sc.s2 = 80 /\ sc.enhanced2 = "very_safe" /\ sc.simple2 = "very_safe"

(***************************************************************************)
(* DataProcessor and GeocodingService: SpecGeo                             *)
(***************************************************************************)
\* the value of a record's address column: text 0 is an empty or 'nan' value,
\* pad says that the text has surrounding blanks
RawValues ==
    {[text |-> a, pad |-> FALSE] : a \in 0..MaxAddr} \cup {[text |-> 1, pad |-> TRUE]}

\* extract_addresses_from_data: str(record[field]).strip(), empty and nan dropped
extract_addresses_from_data(data) == {r.text : r \in {x \in data : x.text # 0}}

\* list(addresses)
RECURSIVE SetToSeq(_)
SetToSeq(S) ==
    IF S = {} THEN << >>
    ELSE LET x == CHOOSE y \in S : \A z \in S : y <= z
         IN  <<x>> \o SetToSeq(S \ {x})

\* what client.geocode gives for one request: coordinates, or nothing / an error
Answers == Coords \cup {"none"}

\* geocode_addresses_batch, lines 94-101, from position i on: answers[i] is the
\* provider's answer to the request for addresses[i]
RECURSIVE batch_from(_, _, _, _)
batch_from(addresses, answers, i, acc) ==
    IF i > Len(addresses) THEN acc
    ELSE IF addresses[i] \in DOMAIN acc.geocoded
         THEN batch_from(addresses, answers, i + 1, acc)
         ELSE IF answers[i] # "none"
              THEN batch_from(addresses, answers, i + 1,
                      [geocoded |-> [a \in DOMAIN acc.geocoded \cup {addresses[i]} |->
                                        IF a = addresses[i] THEN answers[i] ELSE acc.geocoded[a]],
                       requests |-> Append(acc.requests, addresses[i]),
                       successful_geocodes |-> acc.successful_geocodes + 1,
                       failed_geocodes |-> acc.failed_geocodes,
                       failed |-> acc.failed])
              ELSE batch_from(addresses, answers, i + 1,
                      [geocoded |-> acc.geocoded,
                       requests |-> Append(acc.requests, addresses[i]),
                       successful_geocodes |-> acc.successful_geocodes,
                       failed_geocodes |-> acc.failed_geocodes + 1,
                       failed |-> acc.failed \cup {addresses[i]}])

\* geocode_addresses_batch(addresses) with the client available
geocode_addresses_batch(addresses, answers) ==
    batch_from(addresses, answers, 1,
               [geocoded |-> EmptyMap, requests |-> << >>, successful_geocodes |-> 0,
                failed_geocodes |-> 0, failed |-> {}])

\* variant: the flag is read the wrong way round
uncached_addresses_flipped(addresses, cache, force_regeocode) ==
    IF force_regeocode THEN {a \in addresses : a \notin DOMAIN cache} ELSE addresses

\* variant: the cache is not consulted
uncached_addresses_all(addresses, cache, force_regeocode) == addresses

\* geocode_all_addresses, lines 167-176
uncached_addresses(addresses, cache, force_regeocode) ==
    IF ~force_regeocode THEN {a \in addresses : a \notin DOMAIN cache} ELSE addresses

\* variant: the cache is replaced by the new lookups
cache_update_replace(cache, new_coordinates) == new_coordinates

\* line 191: self.geocode_cache.update(new_coordinates)
cache_update(cache, new_coordinates) ==
    [a \in DOMAIN cache \cup DOMAIN new_coordinates |->
        IF a \in DOMAIN new_coordinates THEN new_coordinates[a] ELSE cache[a]]

\* _load_geocode_cache: the map of the file, {} when there is none or it cannot be read
load_geocode_cache(file) == IF file.kind = "map" THEN file.map ELSE EmptyMap

\* _save_geocode_cache: open(..., 'w') and json.dump; an error is printed and dropped
save_geocode_cache(file, cache, outcome) ==
    CASE outcome = "ok" -> [kind |-> "map", map |-> cache]
      [] outcome = "dump_fails" -> [kind |-> "partial"]
SaveOutcomes == {"ok", "dump_fails"}

NoCallN(n) == [op |-> "none", force |-> FALSE, requested |-> {}, failed |-> {}, n |-> n]

\* DataProcessor(): GeocodingService() with or without credentials, and the cache loaded
InitGeo ==
    /\ CacheInit /\ ScoreInit
    /\ client \in BOOLEAN
    /\ dataset = {}
    /\ geocode_file = Absent
    /\ geocode_cache = load_geocode_cache(geocode_file)
    /\ call = NoCallN(0)
    /\ batch = NoBatch
    /\ procs = NoProcs

\* geocode_all_addresses(force_regeocode)
GeocodeAllAddresses ==
    /\ UNCHANGED cacheVars /\ UNCHANGED scoreVars
    /\ UNCHANGED <<client, dataset, batch, procs>>
    /\ \E force_regeocode \in BOOLEAN :
        LET addresses == extract_addresses_from_data(dataset)
            todo == SetToSeq(uncached_addresses(addresses, geocode_cache, force_regeocode))
            done == [op |-> "geocode_all_addresses", force |-> force_regeocode,
                     requested |-> {}, failed |-> {}, n |-> 1 - call.n]
        IN  IF ~client \/ Len(todo) = 0
            THEN /\ call' = done
                 /\ UNCHANGED <<geocode_cache, geocode_file>>
            ELSE \E answers \in [1..Len(todo) -> Answers], outcome \in SaveOutcomes :
                    LET b == geocode_addresses_batch(todo, answers)
                    IN  /\ geocode_cache' = cache_update(geocode_cache, b.geocoded)
                        /\ geocode_file' = save_geocode_cache(geocode_file, geocode_cache', outcome)
                        /\ call' = [done EXCEPT
                                       !.requested = {b.requests[i] : i \in 1..Len(b.requests)},
                                       !.failed = b.failed]

\* the CSV files are replaced by data with one record more or one record less
DatasetChange ==
    \E r \in RawValues :
        /\ dataset' = IF r \in dataset THEN dataset \ {r} ELSE dataset \cup {r}
        /\ call' = [NoCallN(call.n) EXCEPT !.op = "data_change"]
        /\ UNCHANGED <<client, geocode_cache, geocode_file, batch, procs>>
        /\ UNCHANGED cacheVars /\ UNCHANGED scoreVars

\* a new process: DataProcessor() loads the cache file again
Restart ==
    /\ geocode_cache' = load_geocode_cache(geocode_file)
    /\ call' = [NoCallN(call.n) EXCEPT !.op = "restart"]
    /\ UNCHANGED <<client, dataset, geocode_file, batch, procs>>
    /\ UNCHANGED cacheVars /\ UNCHANGED scoreVars

NextGeo ==
    \/ GeocodeAllAddresses
    \/ DatasetChange
    \/ Restart

SpecGeo == InitGeo /\ [][NextGeo]_vars

IsGeocodeAll(c) == c.op = "geocode_all_addresses"

\* C7: a call geocode_all_addresses(force_regeocode=False) leaves every address
\* that was cached before the call in the cache with the same coordinates.
C7_NonForcedKeepsCached ==
    [][(IsGeocodeAll(call') /\ ~call'.force) =>
          \A a \in DOMAIN geocode_cache :
              a \in DOMAIN geocode_cache' /\ geocode_cache'[a] = geocode_cache[a]]_vars

\* after a non-forced call that added an address next to one cached before
C7_Witness ==
    /\ IsGeocodeAll(call) /\ ~call.force
    /\ \E a \in call.requested \ call.failed : a \in DOMAIN geocode_cache
    /\ \E a \in DOMAIN geocode_cache : a \notin call.requested

\* C8: over geocode_all_addresses calls of one process, forced or not, the set of
\* cached addresses never shrinks, and an address whose lookup failed keeps the
\* coordinates it had.
C8_CacheNeverShrinks ==
    [][IsGeocodeAll(call') =>
          /\ DOMAIN geocode_cache \subseteq DOMAIN geocode_cache'
          /\ \A a \in call'.failed \cap DOMAIN geocode_cache :
                geocode_cache'[a] = geocode_cache[a]]_vars

\* after a forced call in which the lookup of a cached address failed
C8_Witness ==
    /\ IsGeocodeAll(call) /\ call.force
    /\ \E a \in call.failed : a \in DOMAIN geocode_cache

\* C9: with force_regeocode=False only addresses absent from the cache at the
\* start of the call are requested from the provider.
C9_OnlyMissesRequested ==
    [][(IsGeocodeAll(call') /\ ~call'.force) =>
          call'.requested \cap DOMAIN geocode_cache = {}]_vars

\* after a non-forced call that requested one address and skipped a cached one
C9_Witness ==
    /\ IsGeocodeAll(call) /\ ~call.force
    /\ call.requested # {}
    /\ \E a \in extract_addresses_from_data(dataset) :
          a \notin call.requested /\ a \in DOMAIN geocode_cache

\* C10: a non-forced call that immediately follows a completed non-forced call,
\* on unchanged data, issues no request to the provider.
C10_SecondRunUsesCache ==
    [][(/\ IsGeocodeAll(call) /\ ~call.force
        /\ IsGeocodeAll(call') /\ ~call'.force
        /\ call'.n # call.n
        /\ dataset' = dataset) =>
          call'.requested = {}]_vars

(***************************************************************************)
(* add_coordinates_to_data: SpecCoords                                     *)
(***************************************************************************)
\* GeocodingService.default_coords, (43.4643, -80.5204)
default_coords == "default"

\* _find_address_in_record: the stripped address of the record, or None (0)
find_address_in_record(record) == record.text

\* _add_default_coordinates
add_default_coordinates(data) == [r \in data |-> default_coords]

\* variant: a record whose address is not in the map gets no coordinates
add_record_coordinates_no_default(data, geocoded_addresses) ==
    [r \in data |->
        IF find_address_in_record(r) # 0 /\ find_address_in_record(r) \in DOMAIN geocoded_addresses
        THEN geocoded_addresses[find_address_in_record(r)]
        ELSE "missing"]

\* add_coordinates_to_data, lines 226-242: the pair written to each record
add_record_coordinates(data, geocoded_addresses) ==
    [r \in data |->
        IF find_address_in_record(r) # 0 /\ find_address_in_record(r) \in DOMAIN geocoded_addresses
        THEN geocoded_addresses[find_address_in_record(r)]
        ELSE default_coords]

\* line 260: coords_added / total_records
summary_raises(data) == IF Cardinality(data) = 0 THEN "ZeroDivisionError" ELSE "none"

\* a process with any geocode cache on file and any CSV data
InitCoords ==
    /\ CacheInit /\ ScoreInit
    /\ client \in BOOLEAN
    /\ dataset \in SUBSET RawValues
    /\ \E m \in GeoMaps :
          /\ geocode_file = [kind |-> "map", map |-> m]
          /\ geocode_cache = load_geocode_cache(geocode_file)
    /\ call = NoCallN(0)
    /\ batch = NoBatch
    /\ procs = NoProcs

\* add_coordinates_to_data(data, force_regeocode) with data = load_csv_data()
AddCoordinatesToData ==
    /\ call.op = "none"
    /\ UNCHANGED cacheVars /\ UNCHANGED scoreVars
    /\ UNCHANGED <<client, dataset, batch, procs>>
    /\ \E force_regeocode \in BOOLEAN :
        LET addresses == extract_addresses_from_data(dataset)
            todo == SetToSeq(uncached_addresses(addresses, geocode_cache, force_regeocode))
            done == [op |-> "add_coordinates_to_data", force |-> force_regeocode,
                     requested |-> {}, failed |-> {}, n |-> 1 - call.n,
                     raised |-> "none", coords |-> add_default_coordinates(dataset)]
        IN  IF ~client
            THEN \* geocode_all_addresses returns {}; lines 217-219
                 /\ call' = done
                 /\ UNCHANGED <<geocode_cache, geocode_file>>
            ELSE IF Len(todo) = 0
            THEN /\ call' = [done EXCEPT
                                !.raised = summary_raises(dataset),
                                !.coords = add_record_coordinates(dataset, geocode_cache)]
                 /\ UNCHANGED <<geocode_cache, geocode_file>>
            ELSE \E answers \in [1..Len(todo) -> Answers], outcome \in SaveOutcomes :
                    LET b == geocode_addresses_batch(todo, answers)
                    IN  /\ geocode_cache' = cache_update(geocode_cache, b.geocoded)
                        /\ geocode_file' = save_geocode_cache(geocode_file, geocode_cache', outcome)
                        /\ call' = [done EXCEPT
                                       !.requested = {b.requests[i] : i \in 1..Len(b.requests)},
                                       !.failed = b.failed,
                                       !.raised = summary_raises(dataset),
                                       !.coords = add_record_coordinates(dataset, geocode_cache')]

NextCoords == AddCoordinatesToData

SpecCoords == InitCoords /\ [][NextCoords]_vars

IsAddCoordinates == call.op = "add_coordinates_to_data"

\* C11: after add_coordinates_to_data every record has the coordinates stored
\* for its address when the address is in the geocode map and otherwise the
\* default pair; with the provider unavailable every record gets the default
\* pair and the call does not fail.
C11_EveryRecordHasCoordinates ==
    IsAddCoordinates =>
        /\ DOMAIN call.coords = dataset
        /\ client =>
              \A r \in dataset :
                 call.coords[r] =
                    IF r.text \in DOMAIN geocode_cache
                    THEN geocode_cache[r.text] ELSE default_coords
        /\ ~client =>
              /\ call.raised = "none"
              /\ \A r \in dataset : call.coords[r] = default_coords

\* a call with the provider available after which one record carries stored
\* coordinates and another, whose lookup failed, the default pair
C11_Witness ==
    /\ IsAddCoordinates /\ client /\ call.raised = "none"
    /\ \E r \in dataset : r.text \in DOMAIN geocode_cache /\ call.coords[r] = geocode_cache[r.text]
    /\ \E r \in dataset : r.text \in call.failed /\ call.coords[r] = default_coords

(***************************************************************************)
(* geocode_addresses_batch statement by statement: SpecBatch               *)
(***************************************************************************)
MaxBatch == 12
MaxFailures == 2

\* line 104: if (i + 1) % 10 == 0
PauseEvery == 10

\* the lists given to the batch: distinct addresses 1, 2, ..., with at most one
\* position that repeats the first address
BatchLists ==
    {[j \in 1..n |-> IF j = d THEN 1 ELSE j] : n \in 0..MaxBatch, d \in 0..MaxBatch}

\* what geocode_address returns: coordinates, or None (no result, or an exception caught)
BatchAnswers == {"c1", "none"}

\* lines 86-92, and what the model records about the run: the provider requests
\* issued, those issued since the last pause, the addresses that had a
\* successful lookup, the positions of the list gone through
batch_begin(addresses) ==
    [pc |-> "start", addresses |-> addresses, i |-> 0, geocoded |-> EmptyMap,
     successful_geocodes |-> 0, failed_geocodes |-> 0,
     raised |-> "none", returned |-> EmptyMap,
     lookups |-> 0, since_pause |-> 0, succeeded |-> {}, processed |-> {}]

\* variant: a failed lookup ends the loop
batch_lookup_abort(b, coords) ==
    IF coords # "none"
    THEN [b EXCEPT !.pc = "progress",
                   !.geocoded = [a \in DOMAIN b.geocoded \cup {b.addresses[b.i + 1]} |->
                                    IF a = b.addresses[b.i + 1] THEN coords ELSE b.geocoded[a]],
                   !.successful_geocodes = @ + 1,
                   !.lookups = @ + 1, !.since_pause = @ + 1,
                   !.succeeded = @ \cup {b.addresses[b.i + 1]},
                   !.processed = @ \cup {b.i + 1}]
    ELSE [b EXCEPT !.pc = "loop", !.i = Len(b.addresses),
                   !.failed_geocodes = @ + 1,
                   !.lookups = @ + 1, !.since_pause = @ + 1,
                   !.processed = @ \cup {b.i + 1}]

\* lines 96-101: coords = self.geocode_address(address, city), then the tallies
batch_lookup(b, coords) ==
    IF coords # "none"
    THEN [b EXCEPT !.pc = "progress",
                   !.geocoded = [a \in DOMAIN b.geocoded \cup {b.addresses[b.i + 1]} |->
                                    IF a = b.addresses[b.i + 1] THEN coords ELSE b.geocoded[a]],
                   !.successful_geocodes = @ + 1,
                   !.lookups = @ + 1, !.since_pause = @ + 1,
                   !.succeeded = @ \cup {b.addresses[b.i + 1]},
                   !.processed = @ \cup {b.i + 1}]
    ELSE [b EXCEPT !.pc = "progress",
                   !.failed_geocodes = @ + 1,
                   !.lookups = @ + 1, !.since_pause = @ + 1,
                   !.processed = @ \cup {b.i + 1}]

\* lines 103-110: the progress report and time.sleep(0.1) at every tenth position
batch_progress(b) ==
    [b EXCEPT !.pc = "loop", !.i = @ + 1,
              !.since_pause = IF (b.i + 1) % PauseEvery = 0 THEN 0 ELSE @]

\* line 95 false: the address is in geocoded already; the position is passed over
batch_skip(b) == [b EXCEPT !.i = @ + 1, !.processed = @ \cup {b.i + 1}]

\* lines 112-130: the final report (line 118 divides by len(addresses)) and the return
batch_return(b) ==
    IF Len(b.addresses) = 0
    THEN [b EXCEPT !.pc = "done", !.raised = "ZeroDivisionError"]
    ELSE [b EXCEPT !.pc = "done", !.returned = b.geocoded]

BatchFrame ==
    /\ UNCHANGED cacheVars /\ UNCHANGED scoreVars
    /\ UNCHANGED <<client, dataset, geocode_cache, geocode_file, call, procs>>

\* geocode_addresses_batch(addresses) is called
InitBatch ==
    /\ CacheInit /\ ScoreInit
    /\ client \in BOOLEAN
    /\ dataset = {}
    /\ geocode_file = Absent
    /\ geocode_cache = EmptyMap
    /\ call = NoCall
    /\ procs = NoProcs
    /\ batch \in {batch_begin(l) : l \in BatchLists}

\* lines 80-82: no client
BatchUnavailable ==
    /\ batch.pc = "start" /\ ~client
    /\ batch' = [batch EXCEPT !.pc = "done"]
    /\ BatchFrame

\* lines 84-92
BatchStart ==
    /\ batch.pc = "start" /\ client
    /\ batch' = [batch EXCEPT !.pc = "loop"]
    /\ BatchFrame

BatchLookup ==
    /\ batch.pc = "loop" /\ batch.i < Len(batch.addresses)
    /\ batch.addresses[batch.i + 1] \notin DOMAIN batch.geocoded
    /\ \E coords \in BatchAnswers :
          /\ coords = "none" => batch.failed_geocodes < MaxFailures
          /\ batch' = batch_lookup(batch, coords)
    /\ BatchFrame

BatchProgress ==
    /\ batch.pc = "progress"
    /\ batch' = batch_progress(batch)
    /\ BatchFrame

BatchSkip ==
    /\ batch.pc = "loop" /\ batch.i < Len(batch.addresses)
    /\ batch.addresses[batch.i + 1] \in DOMAIN batch.geocoded
    /\ batch' = batch_skip(batch)
    /\ BatchFrame

BatchReturn ==
    /\ batch.pc = "loop" /\ batch.i = Len(batch.addresses)
    /\ batch' = batch_return(batch)
    /\ BatchFrame

NextBatch ==
    \/ BatchUnavailable
    \/ BatchStart
    \/ BatchLookup
    \/ BatchProgress
    \/ BatchSkip
    \/ BatchReturn

SpecBatch == InitBatch /\ [][NextBatch]_vars

\* C12: on a non-empty list a failed lookup never aborts the batch: every
\* position of the list is gone through, at every step successful_geocodes +
\* failed_geocodes is the number of provider lookups issued so far, and the
\* returned map holds exactly the addresses whose lookup succeeded.
C12_FailureDoesNotAbort ==
    (client /\ Len(batch.addresses) > 0) =>
        /\ batch.successful_geocodes + batch.failed_geocodes = batch.lookups
        /\ batch.pc = "done" =>
              /\ batch.raised = "none"
              /\ batch.processed = 1..Len(batch.addresses)
              /\ DOMAIN batch.returned = batch.succeeded

\* a finished batch in which a lookup failed and a later one succeeded
C12_Witness ==
    /\ client /\ batch.pc = "done"
    /\ batch.failed_geocodes > 0
    /\ \E a \in batch.succeeded : a > 2
    /\ \E j \in 1..Len(batch.addresses) : batch.addresses[j] \notin DOMAIN batch.returned

\* C13: at no point of a batch have more than 10 requests been issued to the
\* provider since the last pause or since the start of the batch.
C13_PauseEveryTenRequests ==
    batch.since_pause <= PauseEvery

\* C30: with the geocoding provider available, geocode_addresses_batch runs to
\* completion and returns its result without raising for every input, an empty
\* address list included.
C30_RunsToCompletion ==
    (client /\ batch.pc = "done") => batch.raised = "none"

(***************************************************************************)
(* Two server processes sharing geocode_cache.json: SpecProcs              *)
(***************************************************************************)
Procs == {1, 2}

\* the content of the file while writers are at work: json.dump hands the text
\* to the file in pieces, here a first and a second piece, each written at the
\* writer's own file offset
NoPiece == [written |-> FALSE, map |-> EmptyMap]
PieceOf(cache) == [written |-> TRUE, map |-> cache]

file_pieces(file) ==
    IF file.kind = "map" THEN [first |-> PieceOf(file.map), second |-> PieceOf(file.map)]
    ELSE IF file.kind = "partial" THEN [first |-> file.first, second |-> file.second]
    ELSE [first |-> NoPiece, second |-> NoPiece]

\* the document the two pieces make: the map when both pieces are of the same text
file_of(first, second) ==
    IF first = second /\ first.written THEN [kind |-> "map", map |-> first.map]
    ELSE [kind |-> "partial", first |-> first, second |-> second]

\* line 39: open(self.geocode_cache_file, 'w') truncates the file
file_open_w(file) == [kind |-> "partial", first |-> NoPiece, second |-> NoPiece]

\* line 40: json.dump, the first piece reaches the file
file_write_first(file, cache) == file_of(PieceOf(cache), file_pieces(file).second)

\* line 40: json.dump, the rest reaches the file, and the file is closed
file_write_rest(file, cache) == file_of(file_pieces(file).first, PieceOf(cache))

NoProc == [pc |-> "new", cache |-> EmptyMap]

InitProcs ==
    /\ CacheInit /\ ScoreInit
    /\ client = TRUE
    /\ dataset = {}
    /\ geocode_cache = EmptyMap
    /\ call = NoCall
    /\ batch = NoBatch
    /\ \E m \in GeoMaps : geocode_file = [kind |-> "map", map |-> m]
    /\ procs = [state |-> [p \in Procs |-> NoProc], last_writer |-> 0]

ProcFrame ==
    /\ UNCHANGED cacheVars /\ UNCHANGED scoreVars
    /\ UNCHANGED <<client, dataset, geocode_cache, call, batch>>

\* DataProcessor(): self.geocode_cache = self._load_geocode_cache()
ProcStart ==
    \E p \in Procs :
        /\ procs.state[p].pc = "new"
        /\ procs' = [procs EXCEPT !.state[p] =
                        [pc |-> "loaded", cache |-> load_geocode_cache(geocode_file)]]
        /\ UNCHANGED geocode_file
        /\ ProcFrame

\* geocode_all_addresses, lines 188-191: the new lookups are merged into the copy
ProcMerge ==
    \E p \in Procs : \E a \in Addresses : \E c \in Coords :
        /\ procs.state[p].pc = "loaded"
        /\ procs' = [procs EXCEPT !.state[p] =
                        [pc |-> "save", cache |-> cache_update(procs.state[p].cache, [x \in {a} |-> c])]]
        /\ UNCHANGED geocode_file
        /\ ProcFrame

\* _save_geocode_cache, line 39
ProcOpen ==
    \E p \in Procs :
        /\ procs.state[p].pc = "save"
        /\ geocode_file' = file_open_w(geocode_file)
        /\ procs' = [procs EXCEPT !.state[p].pc = "dump"]
        /\ ProcFrame

\* _save_geocode_cache, line 40
ProcWriteFirst ==
    \E p \in Procs :
        /\ procs.state[p].pc = "dump"
        /\ geocode_file' = file_write_first(geocode_file, procs.state[p].cache)
        /\ procs' = [procs EXCEPT !.state[p].pc = "rest"]
        /\ ProcFrame

\* _save_geocode_cache, line 40 and the end of the with block
ProcWriteRest ==
    \E p \in Procs :
        /\ procs.state[p].pc = "rest"
        /\ geocode_file' = file_write_rest(geocode_file, procs.state[p].cache)
        /\ procs' = [procs EXCEPT !.state[p].pc = "stored", !.last_writer = p]
        /\ ProcFrame

NextProcs ==
    \/ ProcStart
    \/ ProcMerge
    \/ ProcOpen
    \/ ProcWriteFirst
    \/ ProcWriteRest

SpecProcs == InitProcs /\ [][NextProcs]_vars

\* C14: when both processes have loaded, merged and stored, the document on disk
\* is exactly the map stored by the process that finished its store last.
C14_LastWriterWins ==
    (\A p \in Procs : procs.state[p].pc = "stored") =>
        geocode_file = [kind |-> "map", map |-> procs.state[procs.last_writer].cache]

(***************************************************************************)
(* The analysis functions of EnhancedSafetyPredictor, one call each:       *)
(* SpecPredict.  The arguments of the call are drawn in the initial state. *)
(***************************************************************************)
\* lines 593-600: the safety-level line (the texts without their emoji)
level_recommendation(safety_score) ==
    IF safety_score >= 80 THEN "VERY SAFE - Excellent parking choice"
    ELSE IF safety_score >= 60 THEN "SAFE - Good parking option with minor considerations"
    ELSE IF safety_score >= 40 THEN "MODERATE - Use caution, check time restrictions"
    ELSE "HIGH RISK - Consider alternative parking"

\* lines 603-607
infraction_recommendations(infraction_analysis) ==
    IF infraction_analysis.total_count > 50
    THEN <<"High enforcement zone - strictly follow parking rules">>
    ELSE IF infraction_analysis.total_count > 20
    THEN <<"Moderate enforcement - be aware of restrictions">>
    ELSE << >>

\* the restriction texts as lines 615 and 623-629 read them
RecRestrictions == RestrictionInfos \cup {"FREE 2HR"}
contains_FREE(hours_info) == hours_info \in {"FREE", "FREE 2HR"}

\* lines 610-629
street_recommendations(street_analysis) ==
    IF street_analysis.has_street_parking
    THEN (IF street_analysis.restrictions # "" /\ contains_FREE(street_analysis.restrictions)
          THEN <<"Free parking available during: ...">> ELSE << >>)
         \o (IF street_analysis.parking_cost_info.kind \notin {"", "FREE", "Unknown"}
             THEN <<"Paid parking required: ...">> ELSE << >>)
         \o (IF street_analysis.restrictions \in {"2HR", "FREE 2HR"}
             THEN <<"2-hour time limit - set a reminder">>
             ELSE IF street_analysis.restrictions = "1HR"
             THEN <<"1-hour time limit - short-term parking only">>
             ELSE IF street_analysis.restrictions = "30MIN"
             THEN <<"30-minute limit - very short-term only">>
             ELSE << >>)
    ELSE << >>

\* lines 632-633
lot_recommendations(lot_analysis) ==
    IF lot_analysis.available_lots > 0
    THEN <<"... parking lot(s) available as alternatives">> ELSE << >>

\* lines 636-645
enforcement_recommendations(infraction_analysis) ==
    (IF infraction_analysis.recent_count > 10
     THEN <<"Avoid peak hours - high enforcement activity">> ELSE << >>)
    \o (IF infraction_analysis.has_infraction_types
        THEN <<"Common violation: ...">> ELSE << >>)

\* lines 648-649
seasonal_recommendations ==
    <<"Winter: Check for snow removal restrictions",
      "Summer: Popular area - arrive early for best spots">>

\* variant: the safety-level line is added after the other lines
generate_recommendations_level_last(safety_score, infraction_analysis, street_analysis, lot_analysis) ==
    infraction_recommendations(infraction_analysis)
    \o street_recommendations(street_analysis)
    \o lot_recommendations(lot_analysis)
    \o enforcement_recommendations(infraction_analysis)
    \o seasonal_recommendations
    \o <<level_recommendation(safety_score)>>

\* _generate_comprehensive_recommendations
generate_comprehensive_recommendations(safety_score, infraction_analysis, street_analysis, lot_analysis) ==
    <<level_recommendation(safety_score)>>
    \o infraction_recommendations(infraction_analysis)
    \o street_recommendations(street_analysis)
    \o lot_recommendations(lot_analysis)
    \o enforcement_recommendations(infraction_analysis)
    \o seasonal_recommendations

RecommendationInputs ==
    [op : {"recommendations_input"},
     safety_score : {0, 19, 20, 39, 40, 59, 60, 79, 80, 100},
     infraction_analysis : [total_count : {0, 21, 51}, recent_count : {0, 11},
                            has_infraction_types : BOOLEAN],
     street_analysis : [has_street_parking : BOOLEAN,
                        parking_cost_info : {c \in CostInfos : c.cents >= 0},
                        restrictions : RecRestrictions],
     lot_analysis : [available_lots : {0, MaxLots}]]

\* _generate_comprehensive_recommendations(safety_score, ...)
GenerateRecommendations ==
    /\ sc.op = "recommendations_input"
    /\ sc' = [op |-> "recommendations",
              safety_score |-> sc.safety_score,
              infraction_analysis |-> sc.infraction_analysis,
              street_analysis |-> sc.street_analysis,
              lot_analysis |-> sc.lot_analysis,
              out |-> generate_comprehensive_recommendations(
                          sc.safety_score, sc.infraction_analysis, sc.street_analysis,
                          sc.lot_analysis)]
    /\ UNCHANGED cacheVars /\ UNCHANGED geoVars

\* the safety-level lines, and those of them that contain "HIGH RISK"
LevelLines ==
    {"VERY SAFE - Excellent parking choice",
     "SAFE - Good parking option with minor considerations",
     "MODERATE - Use caution, check time restrictions",
     "HIGH RISK - Consider alternative parking"}
HighRiskLines == {"HIGH RISK - Consider alternative parking"}

\* C15: the list returned by _generate_comprehensive_recommendations has the
\* safety-level line as its first element for every input, and for a score
\* below 0.2 that element contains "HIGH RISK".
C15_LevelLineFirst ==
    sc.op = "recommendations" =>
        /\ Len(sc.out) >= 1
        /\ sc.out[1] \in LevelLines
        /\ \A j \in 2..Len(sc.out) : sc.out[j] \notin LevelLines
        /\ sc.safety_score < 20 => sc.out[1] \in HighRiskLines

\* a dangerous location with further lines after the level line
C15_Witness ==
    /\ sc.op = "recommendations"
    /\ sc.safety_score < 20
    /\ sc.out[1] \in HighRiskLines
    /\ Len(sc.out) > 5

(***************************************************************************)
(* _analyze_infractions                                                    *)
(***************************************************************************)
MaxInfractions == 3

\* line 225: recent_date = datetime.now() - timedelta(days=30)
RecentDays == 30

\* the ISSUEDATE text of a bylaw record: none, a text strptime rejects, or
\* "m/d/Y" alone or followed by a time of day; age is the number of days from
\* the date to today, hour the hour of day the text names
NoIssueDate == [kind |-> "missing", age |-> 0, has_time |-> FALSE, hour |-> 0]
IssueDates ==
    {NoIssueDate, [NoIssueDate EXCEPT !.kind = "malformed"]}
    \cup [kind : {"date"}, age : {0, RecentDays + 1}, has_time : {FALSE}, hour : {0}]
    \cup [kind : {"date"}, age : {0, RecentDays + 1}, has_time : {TRUE}, hour : {9, 14, 20}]

\* infraction.get(key, default) on the dicts of one list: a list whose dicts
\* carry the CSV column names ("upper": REASON, VIOFINE, ISSUEDATE) answers the
\* lookups of _analyze_infractions, a list built by _get_location_infractions
\* ("lower": date, reason, fine, address, street) does not
get_ISSUEDATE(keys, infraction) == IF keys = "upper" THEN infraction ELSE NoIssueDate

\* variant: every text that is there counts as a date
date_parses_lenient(issue_date) == issue_date.kind # "missing"

\* lines 251-255: datetime.strptime(issue_date.split()[0], '%m/%d/%Y')
date_parses(issue_date) == issue_date.kind = "date"

\* line 254: date_obj >= recent_date; date_obj is midnight of the date
is_recent(issue_date, at_midnight) ==
    issue_date.age < RecentDays \/ (issue_date.age = RecentDays /\ at_midnight)

\* line 258: date_obj.hour if len(issue_date.split()) > 1 else 12; date_obj was
\* parsed from the date alone, so its hour is 0
pattern_hour(issue_date) == IF issue_date.has_time THEN 0 ELSE 12

\* lines 226, 248-261: recent_count
RECURSIVE count_recent(_, _, _)
count_recent(keys, infractions, at_midnight) ==
    IF infractions = << >> THEN 0
    ELSE LET d == get_ISSUEDATE(keys, Head(infractions))
         IN  (IF date_parses(d) /\ is_recent(d, at_midnight) THEN 1 ELSE 0)
             + count_recent(keys, Tail(infractions), at_midnight)

\* the values a histogram is built from, in the order of the list
RECURSIVE pattern_hours(_, _)
pattern_hours(keys, infractions) ==
    IF infractions = << >> THEN << >>
    ELSE LET d == get_ISSUEDATE(keys, Head(infractions))
         IN  (IF date_parses(d) THEN <<pattern_hour(d)>> ELSE << >>)
             \o pattern_hours(keys, Tail(infractions))

\* a defaultdict(int) filled from a sequence: the keys in first-seen order
RECURSIVE first_seen(_)
first_seen(hs) ==
    IF hs = << >> THEN << >>
    ELSE LET rest == first_seen(SubSeq(hs, 1, Len(hs) - 1))
         IN  IF \E j \in 1..Len(rest) : rest[j] = hs[Len(hs)]
             THEN rest ELSE Append(rest, hs[Len(hs)])
count_of(hs, h) == Cardinality({j \in 1..Len(hs) : hs[j] = h})

\* sorted(items, key=count, reverse=True): stable, so equal counts keep their order
RECURSIVE sorted_by_count(_, _)
sorted_by_count(ks, hs) ==
    IF ks = << >> THEN << >>
    ELSE LET best == CHOOSE j \in 1..Len(ks) :
                        /\ \A l \in 1..Len(ks) : count_of(hs, ks[l]) <= count_of(hs, ks[j])
                        /\ \A l \in 1..(j - 1) : count_of(hs, ks[l]) < count_of(hs, ks[j])
         IN  <<ks[best]>> \o sorted_by_count(SubSeq(ks, 1, best - 1) \o SubSeq(ks, best + 1, Len(ks)), hs)

\* line 269 and 279: the first three keys of the sorted histogram
top_three(hs) ==
    LET s == sorted_by_count(first_seen(hs), hs)
    IN  SubSeq(s, 1, IF Len(s) < 3 THEN Len(s) ELSE 3)

\* _analyze_infractions(infractions)
analyze_infractions(keys, infractions, at_midnight) ==
    IF infractions = << >>
    THEN [total_count |-> 0, recent_count |-> 0, peak_times |-> << >>]
    ELSE [total_count |-> Len(infractions),
          recent_count |-> count_recent(keys, infractions, at_midnight),
          peak_times |-> top_three(pattern_hours(keys, infractions))]

\* lines 250-261: the exception that leaves the loop; an empty text is not
\* parsed at all (line 249), a text strptime rejects raises ValueError inside
\* the try block, whose bare except clause catches everything
analyze_infractions_raised(keys, infractions) ==
    LET rejected == {j \in 1..Len(infractions) :
                        LET d == get_ISSUEDATE(keys, infractions[j])
                        IN  d.kind # "missing" /\ ~date_parses(d)}
        caught == {"ValueError", "IndexError", "AttributeError"}
    IN  IF rejected # {} /\ "ValueError" \notin caught THEN "ValueError" ELSE "none"

\* a date issued today at the given hour
IssuedAt(h) == [kind |-> "date", age |-> 0, has_time |-> TRUE, hour |-> h]
\* n infractions issued today at 9
Repeated(n) == [j \in 1..n |-> IssuedAt(9)]

InfractionLists ==
    UNION {[1..n -> IssueDates] : n \in 0..MaxInfractions}
    \cup {<<IssuedAt(9), IssuedAt(9), IssuedAt(9), IssuedAt(14), IssuedAt(14), IssuedAt(20)>>}
    \cup {Repeated(n) : n \in RecentCounts}

InfractionInputs ==
    [op : {"infractions_input"}, keys : {"upper", "lower"},
     infractions : InfractionLists, at_midnight : BOOLEAN]

\* _analyze_infractions(infractions)
AnalyzeInfractions ==
    /\ sc.op = "infractions_input"
    /\ sc' = [op |-> "infractions", keys |-> sc.keys, infractions |-> sc.infractions,
              at_midnight |-> sc.at_midnight,
              raised |-> analyze_infractions_raised(sc.keys, sc.infractions),
              time_patterns |-> pattern_hours(sc.keys, sc.infractions),
              out |-> analyze_infractions(sc.keys, sc.infractions, sc.at_midnight)]
    /\ UNCHANGED cacheVars /\ UNCHANGED geoVars

\* the hours of day named by the parseable timestamps of a list (12 for a date
\* without a time of day), in the order of the list
RECURSIVE issued_hours(_)
issued_hours(infractions) ==
    IF infractions = << >> THEN << >>
    ELSE (IF date_parses(Head(infractions))
          THEN <<IF Head(infractions).has_time THEN Head(infractions).hour ELSE 12>>
          ELSE << >>) \o issued_hours(Tail(infractions))

\* C16: peak_times of _analyze_infractions lists the at most three hours of day
\* with the most parseable timestamps, by descending frequency, ties in
\* first-seen order; hours [9,9,9,14,14,20] give 9, 14, 20.
C16_PeakTimes ==
    (sc.op = "infractions" /\ sc.keys = "upper") =>
        sc.out.peak_times = top_three(issued_hours(sc.infractions))

\* the infractions of a list whose date is there and well formed
WellFormed(infractions) == SelectSeq(infractions, LAMBDA d : d.kind = "date")

\* C25: an infraction whose date is malformed or missing is skipped silently:
\* _analyze_infractions raises nothing, total_count is the number of infraction
\* records, and the record is counted neither in recent_count nor in the hour
\* histogram.
C25_BadDateSkipped ==
    sc.op = "infractions" =>
        LET good == WellFormed(sc.infractions)
        IN  /\ sc.raised = "none"
            /\ sc.out.total_count = Len(sc.infractions)
            /\ sc.out.recent_count <= Len(good)
            /\ sc.out.recent_count = count_recent(sc.keys, good, sc.at_midnight)
            /\ Len(sc.time_patterns) <= Len(good)
            /\ sc.time_patterns = pattern_hours(sc.keys, good)

\* a malformed date, a missing date and a date of today in one list
C25_Witness ==
    /\ sc.op = "infractions" /\ sc.keys = "upper"
    /\ Len(sc.infractions) = 3
    /\ \E i, j, l \in 1..3 :
          /\ sc.infractions[i].kind = "malformed"
          /\ sc.infractions[j].kind = "missing"
          /\ sc.infractions[l].kind = "date" /\ sc.infractions[l].age = 0
    /\ sc.out.total_count = 3 /\ sc.out.recent_count = 1 /\ Len(sc.time_patterns) = 1

(***************************************************************************)
(* _extract_street_from_address                                            *)
(***************************************************************************)
MaxTokens == 3

\* an address text: its whitespace-delimited tokens, each a sequence of
\* characters, and whether the text is exactly the tokens joined by single
\* blanks ("single") or has other white space (leading, trailing, repeated:
\* "other")
Digits == {"0", "1", "2"}
T_100 == <<"1", "0", "0">>
T_12A == <<"1", "2", "A">>
T_REGINA == <<"R", "E", "G", "I", "N", "A">>
T_ST == <<"S", "T">>
T_S == <<"S">>
Tokens == {T_100, T_12A, T_REGINA, T_ST}
AddressTexts ==
    [tokens : UNION {[1..n -> Tokens] : n \in 0..MaxTokens}
              \cup {<<T_100, T_REGINA, T_ST, T_S>>, <<T_REGINA, T_ST, T_S>>},
     spacing : {"single", "other"}]

\* str.isdigit()
isdigit(token) == Len(token) > 0 /\ \A j \in 1..Len(token) : token[j] \in Digits
\* address.split()
split(address) == address.tokens
\* ' '.join(parts)
join(parts) == [tokens |-> parts, spacing |-> "single"]

\* variant: a number standing alone is dropped as well
extract_street_drop_lone_number(address) ==
    IF Len(split(address)) > 0 /\ isdigit(split(address)[1])
    THEN join(Tail(split(address)))
    ELSE address

\* _extract_street_from_address(address)
extract_street_from_address(address) ==
    IF Len(split(address)) > 1 /\ isdigit(split(address)[1])
    THEN join(Tail(split(address)))
    ELSE address

StreetInputs == [op : {"street_input"}, address : AddressTexts]

\* _extract_street_from_address(address)
ExtractStreet ==
    /\ sc.op = "street_input"
    /\ sc' = [op |-> "street", address |-> sc.address,
              out |-> extract_street_from_address(sc.address)]
    /\ UNCHANGED cacheVars /\ UNCHANGED geoVars

FirstTokenNumeric(address) == Len(address.tokens) > 0 /\ isdigit(address.tokens[1])

\* C17 as stated: whenever the first token is purely numeric it is dropped and
\* the remainder returned, also for an address that is a single numeric token;
\* in every other case the address is returned unchanged.
C17_DropsLeadingNumber ==
    sc.op = "street" =>
        IF FirstTokenNumeric(sc.address)
        THEN sc.out.tokens = Tail(sc.address.tokens)
        ELSE sc.out = sc.address

\* C17 amended: a purely numeric first token is dropped when at least one more
\* token follows it, and the remaining tokens are returned joined by single
\* blanks; in every other case, a single numeric token included, the address
\* is returned unchanged.
C17_DropsLeadingNumberBeforeText ==
    sc.op = "street" =>
        IF FirstTokenNumeric(sc.address) /\ Len(sc.address.tokens) > 1
        THEN sc.out = [tokens |-> Tail(sc.address.tokens), spacing |-> "single"]
        ELSE sc.out = sc.address

\* "100 REGINA ST S" gives "REGINA ST S"
C17_Witness ==
    /\ sc.op = "street"
    /\ sc.address = [tokens |-> <<T_100, T_REGINA, T_ST, T_S>>, spacing |-> "single"]
    /\ sc.out = [tokens |-> <<T_REGINA, T_ST, T_S>>, spacing |-> "single"]

(***************************************************************************)
(* The records of a location: _get_location_infractions,                  *)
(* _get_location_street_parking, _get_nearby_parking_lots                  *)
(***************************************************************************)
MaxChars == 4

\* texts character by character: a digit, a letter in both cases, a blank
Chars == {"1", "K", "k", " "}
Strings(n) == UNION {[1..m -> Chars] : m \in 0..n}

\* str.upper()
upper_char(c) == IF c = "k" THEN "K" ELSE c
upper(s) == [j \in 1..Len(s) |-> upper_char(s[j])]

\* a in b
is_substring(a, b) ==
    \E off \in 0..(Len(b) - Len(a)) : \A j \in 1..Len(a) : b[off + j] = a[j]

\* s.strip() is not empty
strip_nonempty(s) == \E j \in 1..Len(s) : s[j] # " "

\* s.split() on a text given character by character
RECURSIVE split_text(_)
split_text(s) ==
    IF s = << >> THEN << >>
    ELSE IF Head(s) = " " THEN split_text(Tail(s))
    ELSE LET n == CHOOSE m \in 1..Len(s) :
                     /\ \A j \in 1..m : s[j] # " "
                     /\ m = Len(s) \/ s[m + 1] = " "
         IN  <<SubSeq(s, 1, n)>> \o split_text(SubSeq(s, n + 1, Len(s)))

\* ' '.join(parts) character by character
RECURSIVE join_text(_)
join_text(parts) ==
    IF parts = << >> THEN << >>
    ELSE IF Len(parts) = 1 THEN parts[1]
    ELSE parts[1] \o <<" ">> \o join_text(Tail(parts))

\* the text as _extract_street_from_address sees it
text_of(s) ==
    [tokens |-> split_text(s),
     spacing |-> IF join_text(split_text(s)) = s THEN "single" ELSE "other"]

\* _extract_street_from_address(address) on a text given character by character
street_of_address(s) ==
    LET r == extract_street_from_address(text_of(s))
    IN  IF r = text_of(s) THEN s ELSE join_text(r.tokens)

\* a cell of a CSV column: NaN, or a text
Cells(n) == [na : {TRUE}, text : {<< >>}] \cup [na : {FALSE}, text : Strings(n)]

\* variant: a street record is selected when its street contains the location
street_selected_substring(location, cell) ==
    ~cell.na /\ is_substring(upper(location), upper(cell.text))

\* lines 194-196 and 298-300: data['STREET'].str.upper() == location.upper()
street_selected(location, cell) ==
    ~cell.na /\ upper(cell.text) = upper(location)

\* lines 399-404
lot_selected(location, cell) ==
    /\ ~cell.na /\ strip_nonempty(cell.text)
    /\ \/ is_substring(upper(location), upper(cell.text))
       \/ upper(street_of_address(cell.text)) = upper(location)

\* location keys: texts with a first and a last character that is not a blank
LocationKeys == {s \in Strings(3) : Len(s) > 0 /\ s[1] # " " /\ s[Len(s)] # " "}

SelectInputs ==
    [op : {"select_input"}, dataset : {"bylaw_infractions", "parking_on_street", "parking_lots"},
     location : LocationKeys,
     cell : Cells(MaxChars) \cup {[na |-> FALSE, text |-> <<"1", " ", "K", " ", " ", "k">>]}]

\* one record of one dataset goes through the filter of its _get_location_ function
SelectRecord ==
    /\ sc.op = "select_input"
    /\ sc' = [op |-> "select", dataset |-> sc.dataset, location |-> sc.location, cell |-> sc.cell,
              selected |-> IF sc.dataset = "parking_lots"
                           THEN lot_selected(sc.location, sc.cell)
                           ELSE street_selected(sc.location, sc.cell)]
    /\ UNCHANGED cacheVars /\ UNCHANGED geoVars

\* the words of the claim
fold_case(c) == IF c = "K" THEN "k" ELSE c
EqualIgnoringCase(a, b) ==
    Len(a) = Len(b) /\ \A j \in 1..Len(a) : fold_case(a[j]) = fold_case(b[j])
ContainsIgnoringCase(a, l) ==
    \E off \in 0..(Len(a) - Len(l)) : EqualIgnoringCase(SubSeq(a, off + 1, off + Len(l)), l)

\* C18: an infraction or street-parking record is selected for location L iff
\* its street equals L ignoring case; a parking-lot record iff its address
\* contains L ignoring case or its address without its leading number equals L
\* ignoring case.
C18_RecordSelection ==
    sc.op = "select" =>
        IF sc.dataset = "parking_lots"
        THEN sc.selected <=>
                /\ ~sc.cell.na
                /\ \/ ContainsIgnoringCase(sc.cell.text, sc.location)
                   \/ EqualIgnoringCase(street_of_address(sc.cell.text), sc.location)
        ELSE sc.selected <=> (~sc.cell.na /\ EqualIgnoringCase(sc.cell.text, sc.location))

\* a lot selected through its address without the number only: "1 K  k" for "K K"
C18_Witness ==
    /\ sc.op = "select" /\ sc.dataset = "parking_lots" /\ sc.selected
    /\ ~ContainsIgnoringCase(sc.cell.text, sc.location)

(***************************************************************************)
(* _analyze_location_safety, the infraction part                           *)
(***************************************************************************)
\* _get_location_infractions, lines 198-207: each selected row becomes a dict
\* with the keys date, reason, fine, address, street; rows holds the ISSUEDATE
\* texts of the rows selected for the location
get_location_infractions(rows) == [keys |-> "lower", infractions |-> rows]

\* _analyze_location_safety, lines 128-129 and 140-142, as far as the
\* enforcement factor goes
analyze_location_infractions(rows, at_midnight) ==
    LET infractions == get_location_infractions(rows)
        infraction_analysis ==
            analyze_infractions(infractions.keys, infractions.infractions, at_midnight)
    IN  [infraction_analysis |-> infraction_analysis,
         enforcement_risk |-> enforcement_risk(infraction_analysis.recent_count).delta]

LocationInputs == [op : {"location_input"}, rows : InfractionLists, at_midnight : BOOLEAN]

\* _analyze_location_safety(location, bylaw_data, ...)
AnalyzeLocation ==
    /\ sc.op = "location_input"
    /\ sc' = [op |-> "location", rows |-> sc.rows, at_midnight |-> sc.at_midnight,
              out |-> analyze_location_infractions(sc.rows, sc.at_midnight)]
    /\ UNCHANGED cacheVars /\ UNCHANGED geoVars

\* the number of the rows dated within the 30 days before now
DatedWithinWindow(rows, at_midnight) == count_recent("upper", rows, at_midnight)

\* C19: for a location analysed through _analyze_location_safety, recent_count
\* is the number of its infractions dated within the 30 days before now, and the
\* enforcement-risk delta is -0.15 for more than 10 of them, -0.05 for more than
\* 5 and at most 10, and 0 otherwise.
C19_EnforcementRisk ==
    sc.op = "location" =>
        LET n == DatedWithinWindow(sc.rows, sc.at_midnight)
        IN  /\ sc.out.infraction_analysis.recent_count = n
            /\ sc.out.enforcement_risk = IF n > 10 THEN -15 ELSE IF n > 5 THEN -5 ELSE 0

(***************************************************************************)
(* _analyze_street_parking and the street factors of the score             *)
(***************************************************************************)
MaxStreet == 2

\* NUM_SPACES of a street-parking row: a blank cell or a number
NoSpaces == [given |-> FALSE, n |-> 0]
Spaces(n) == [given |-> TRUE, n |-> n]
NumSpaces == {NoSpaces, Spaces(0), Spaces(2)}

\* PARKING_COST of a row: a blank cell | exactly 'FREE' | another text that
\* contains FREE in some case ('Free after 6pm') | an hourly rate ('$2.00/hr',
\* in cents)
NoCost == [kind |-> "", cents |-> 0]
CostTexts ==
    {[kind |-> k, cents |-> 0] : k \in {"", "FREE", "free_text"}}
    \cup {[kind |-> "rate", cents |-> c] : c \in {0, 200, 300}}
\* HOURS of a row, the text that carries the time restriction
HoursTexts == {"", "FREE", "2HR"}

StreetRecords == [num_spaces : NumSpaces, parking_cost : CostTexts, hours : HoursTexts]
StreetParkingLists == UNION {[1..n -> StreetRecords] : n \in 0..MaxStreet}

\* 'FREE' in parking_cost_str.upper(), line 360
cost_contains_FREE(cost) == cost.kind \in {"FREE", "free_text"}

\* lines 335-339: a blank or zero cell adds nothing
total_spaces(street_parking) ==
    LET RECURSIVE sum(_)
        sum(i) ==
            IF i = 0 THEN 0
            ELSE sum(i - 1)
                 + (IF street_parking[i].num_spaces.given /\ street_parking[i].num_spaces.n # 0
                    THEN street_parking[i].num_spaces.n ELSE 0)
    IN  sum(Len(street_parking))

\* line 380: '; '.join(set(free_hours + paid_parking)), as the score function
\* reads it: one text stays what it is, no text gives 'No cost information',
\* several texts give a text float() rejects
join_costs(costs) ==
    IF Cardinality(costs) = 1
    THEN LET c == CHOOSE c \in costs : TRUE
         IN  IF c.kind = "free_text" THEN [kind |-> "text", cents |-> 0] ELSE c
    ELSE [kind |-> "text", cents |-> 0]

\* _analyze_street_parking: 'restrictions' is the list created empty at line 345
\* and returned at line 383 with nothing appended
analyze_street_parking(street_parking) ==
    IF Len(street_parking) = 0
    THEN [total_spaces |-> 0, has_street_parking |-> FALSE, free_parking_details |-> FALSE,
          parking_cost_info |-> [kind |-> "text", cents |-> 0], restrictions |-> ""]
    ELSE LET costs == {street_parking[i].parking_cost : i \in 1..Len(street_parking)} \ {NoCost}
         IN  [total_spaces |-> total_spaces(street_parking),
              has_street_parking |-> Len(street_parking) > 0,
              free_parking_details |-> \E c \in costs : cost_contains_FREE(c),
              parking_cost_info |-> join_costs(costs),
              restrictions |-> ""]

\* _analyze_location_safety, steps 2 and 4, for a location without infractions
\* and without nearby lots
analyze_location_street(street_parking) ==
    LET street_analysis == analyze_street_parking(street_parking)
    IN  [street_analysis |-> street_analysis,
         score_details |-> calculate_comprehensive_safety_score(
                               [total_count |-> 0, recent_count |-> 0], street_analysis,
                               [available_lots |-> 0])]

StreetParkingInputs == [op : {"street_parking_input"}, street_parking : StreetParkingLists]

AnalyzeStreetParking ==
    /\ sc.op = "street_parking_input"
    /\ sc' = [op |-> "street_parking", street_parking |-> sc.street_parking,
              out |-> analyze_location_street(sc.street_parking)]
    /\ UNCHANGED cacheVars /\ UNCHANGED geoVars

\* the rows of the location
RowsOf(rows) == {rows[i] : i \in 1..Len(rows)}

\* C22: a location analysed through _analyze_location_safety that has street
\* parking gets a time-restriction delta of +0.1 when its restriction text
\* contains FREE, +0.05 when it instead contains 2HR, 1HR or 30MIN, 0 otherwise.
C22_TimeRestrictionDelta ==
    (sc.op = "street_parking" /\ Len(sc.street_parking) > 0) =>
        sc.out.score_details.score_breakdown.time_restriction_bonus =
            IF \E r \in RowsOf(sc.street_parking) : r.hours = "FREE" THEN 10
            ELSE IF \E r \in RowsOf(sc.street_parking) : r.hours = "2HR" THEN 5
            ELSE 0

\* C23: every location with street parking whose cost text carries an hourly
\* rate greater than 0 gets a paid-parking delta of -0.1, also when its rows carry
\* two different positive rates or a paid row stands next to a free one.
C23_PaidParkingDelta ==
    (/\ sc.op = "street_parking"
     /\ \E r \in RowsOf(sc.street_parking) : r.parking_cost.kind = "rate" /\ r.parking_cost.cents > 0) =>
        sc.out.score_details.score_breakdown.paid_parking_penalty = -10

\* C24: the free-parking delta is +0.15 exactly when the location's total number
\* of street-parking spaces is greater than 0 and the cost text of at least one of
\* its rows contains FREE in some case, and 0 otherwise.
C24_FreeParkingDelta ==
    sc.op = "street_parking" =>
        sc.out.score_details.score_breakdown.free_parking_bonus =
            IF /\ sc.out.street_analysis.total_spaces > 0
               /\ \E r \in RowsOf(sc.street_parking) : r.parking_cost.kind \in {"FREE", "free_text"}
            THEN 15
            ELSE 0

(***************************************************************************)
(* _extract_all_locations followed by the _get_location_ functions         *)
(***************************************************************************)
\* s.strip() on a text given character by character
RECURSIVE strip(_)
strip(s) ==
    IF s = << >> THEN s
    ELSE IF Head(s) = " " THEN strip(Tail(s))
    ELSE IF s[Len(s)] = " " THEN strip(SubSeq(s, 1, Len(s) - 1))
    ELSE s

\* lines 80-84 and 89-93: the location keys a STREET column contributes
extract_all_locations(cells) ==
    {upper(strip(cells[j].text)) : j \in {i \in 1..Len(cells) : ~cells[i].na /\ strip_nonempty(cells[i].text)}}

\* lines 194-196 and 298-300: the rows of the column the filter selects
get_location_rows(location, cells) ==
    {j \in 1..Len(cells) : street_selected(location, cells[j])}

\* a STREET column of one or two rows
StreetColumns ==
    {<<c>> : c \in Cells(MaxChars)}
    \cup {<<c, d>> : c \in Cells(MaxChars), d \in {[na |-> FALSE, text |-> <<"K">>]}}
LocateInputs ==
    [op : {"locate_input"}, dataset : {"bylaw_infractions", "parking_on_street"},
     cells : StreetColumns]

\* analyze_all_locations: every key of _extract_all_locations is handed to the
\* filter of the dataset it came from
LocateRows ==
    /\ sc.op = "locate_input"
    /\ sc' = [op |-> "locate", dataset |-> sc.dataset, cells |-> sc.cells,
              locations |-> extract_all_locations(sc.cells),
              rows |-> [l \in extract_all_locations(sc.cells) |-> get_location_rows(l, sc.cells)]]
    /\ UNCHANGED cacheVars /\ UNCHANGED geoVars

\* C26: every location key derived from the STREET value of an infraction or
\* street-parking record selects at least that record again, also when the value
\* has leading or trailing blanks or mixed case.
C26_KeySelectsItsRecord ==
    sc.op = "locate" =>
        \A j \in 1..Len(sc.cells) :
            (~sc.cells[j].na /\ strip_nonempty(sc.cells[j].text)) =>
                /\ upper(strip(sc.cells[j].text)) \in sc.locations
                /\ j \in sc.rows[upper(strip(sc.cells[j].text))]

\* the arguments of one call of the analysis functions
InitPredict ==
    /\ CacheInit /\ GeoInit
    /\ sc \in RecommendationInputs \cup InfractionInputs \cup StreetInputs \cup SelectInputs
             \cup LocationInputs \cup StreetParkingInputs
             \cup LocateInputs

NextPredict ==
    \/ GenerateRecommendations
    \/ AnalyzeInfractions
    \/ ExtractStreet
    \/ SelectRecord
    \/ AnalyzeLocation
    \/ AnalyzeStreetParking
    \/ LocateRows

SpecPredict == InitPredict /\ [][NextPredict]_vars

(***************************************************************************)
(* The web server: get_safety_markers and clear_cache, SpecMarkers         *)
(***************************************************************************)
\* lines 609 and 661 of server.py
MarkersMaxAgeHours == 24
MarkersMaxAgeDays == 30

\* the clock of this specification moves in steps of half a day
MaxClock == 36
WaitSteps == {HoursPerDay \div 2}

\* analyze_comprehensive_parking_safety on the frames read at lines 626-646: a
\* file that does not exist leaves its frame empty, and without rows there is no
\* location
analysis_of(fs) ==
    IF \E p \in Paths : fs[p].exists THEN [l \in Locations |-> "safe"] ELSE EmptyPayload

\* `if cached_analysis:` and `if not geocoded_addresses:`: None and {} are false
truthy(ret) == ret.kind = "value" /\ ret.st = "ok" /\ ret.v # << >>

\* line 611
analysis_cached(ret) == truthy(ret)

\* lines 661-670: the map the markers are built from, and the document written
markers_geocoded(doc, file, t) ==
    LET cached == load_geocoded_addresses(doc, t, MarkersMaxAgeDays).ret
        loaded == load_geocode_cache(file)
    IN  IF truthy(cached) THEN [geocoded |-> cached.v, doc |-> doc, saved |-> FALSE]
        ELSE IF loaded # EmptyMap
             THEN [geocoded |-> loaded, doc |-> geo_cache_entry(t, loaded), saved |-> TRUE]
             ELSE [geocoded |-> loaded, doc |-> doc, saved |-> FALSE]

\* variant: the names of all selected documents are reported
clear_cache_reports_selected(docs, cache_type) ==
    [safety |-> IF cache_type \in {"all", "safety_analysis"} THEN Absent ELSE docs.safety,
     geo |-> IF cache_type \in {"all", "geocoded_addresses"} THEN Absent ELSE docs.geo,
     meta |-> IF cache_type = "all" THEN << >> ELSE docs.meta,
     cleared |-> (IF cache_type \in {"all", "safety_analysis"} THEN <<"safety_analysis">> ELSE << >>)
                 \o (IF cache_type \in {"all", "geocoded_addresses"} THEN <<"geocoded_addresses">> ELSE << >>)
                 \o (IF cache_type = "all" THEN <<"metadata">> ELSE << >>)]

\* CacheManager.clear_cache(cache_type); the metadata document exists once it
\* has an entry
clear_cache(docs, cache_type) ==
    LET safety == cache_type \in {"all", "safety_analysis"} /\ docs.safety.kind # "absent"
        geo == cache_type \in {"all", "geocoded_addresses"} /\ docs.geo.kind # "absent"
        meta == cache_type = "all" /\ docs.meta # << >>
    IN  [safety |-> IF safety THEN Absent ELSE docs.safety,
         geo |-> IF geo THEN Absent ELSE docs.geo,
         meta |-> IF meta THEN << >> ELSE docs.meta,
         cleared |-> (IF safety THEN <<"safety_analysis">> ELSE << >>)
                     \o (IF geo THEN <<"geocoded_addresses">> ELSE << >>)
                     \o (IF meta THEN <<"metadata">> ELSE << >>)]

CacheTypes == {"all", "safety_analysis", "geocoded_addresses", "other"}

MarkersRes(op) ==
    [op |-> op, recomputed |-> FALSE, status |-> 0, geocoded |-> EmptyMap,
     cache_type |-> "", cleared |-> << >>]

\* the server starts on an empty cache directory; the CSV files are all there
\* or all missing
InitMarkers ==
    /\ now = 0
    /\ files \in {InitFiles, [p \in Paths |-> NoFile]}
    /\ safetyDoc = Absent /\ geoDoc = Absent /\ metaDoc = << >>
    /\ res = MarkersRes("none")
    /\ savedPayload = EmptyPayload
    /\ savedMeta = FileMeta(files)
    /\ changed = FALSE /\ nchanges = 0 /\ sv = Idle
    /\ ScoreInit /\ GeoInit

\* GET /api/safety-markers
GetSafetyMarkers ==
    LET cached_analysis == load_safety_analysis(safetyDoc, files, now, MarkersMaxAgeHours).ret
        hit == analysis_cached(cached_analysis)
        safety_analysis == IF hit THEN cached_analysis.v ELSE analysis_of(files)
        meta1 == IF hit THEN metaDoc ELSE update_metadata(metaDoc, "safety_analysis", now)
        g == markers_geocoded(geoDoc, geocode_file, now)
    IN  /\ safetyDoc' = IF hit THEN safetyDoc ELSE cache_entry(now, files, safety_analysis)
        /\ savedPayload' = IF hit THEN savedPayload ELSE safety_analysis
        /\ savedMeta' = IF hit THEN savedMeta ELSE FileMeta(files)
        /\ changed' = IF hit THEN changed ELSE FALSE
        /\ geoDoc' = g.doc
        /\ metaDoc' = IF g.saved THEN update_metadata(meta1, "geocoded_addresses", now) ELSE meta1
        /\ res' = [MarkersRes("get_safety_markers") EXCEPT
                      !.recomputed = ~hit,
                      !.status = IF g.geocoded = EmptyMap THEN 404 ELSE 200,
                      !.geocoded = g.geocoded]
        /\ UNCHANGED <<now, files, nchanges, sv>>
        /\ UNCHANGED scoreVars /\ UNCHANGED geoVars

\* POST /api/cache/clear
ClearCache ==
    \E cache_type \in CacheTypes :
        LET c == clear_cache([safety |-> safetyDoc, geo |-> geoDoc, meta |-> metaDoc], cache_type)
        IN  /\ safetyDoc' = c.safety
            /\ geoDoc' = c.geo
            /\ metaDoc' = c.meta
            /\ res' = [MarkersRes("clear_cache") EXCEPT !.cache_type = cache_type, !.cleared = c.cleared]
            /\ UNCHANGED <<now, files, savedPayload, savedMeta, changed, nchanges, sv>>
            /\ UNCHANGED scoreVars /\ UNCHANGED geoVars

\* run_geocoding.py: a DataProcessor of its own loads geocode_cache.json,
\* geocode_all_addresses(False) looks up addresses it does not hold yet, merges
\* them and writes the file; the provider places every address at the same point
RunGeocoding ==
    \E new_coordinates \in {m \in GeoMaps : \A a \in DOMAIN m : m[a] = "c1"} :
        LET cache == load_geocode_cache(geocode_file)
        IN  /\ new_coordinates # EmptyMap
            /\ DOMAIN new_coordinates \cap DOMAIN cache = {}
            /\ geocode_file' = save_geocode_cache(geocode_file, cache_update(cache, new_coordinates), "ok")
            /\ res' = MarkersRes("run_geocoding")
            /\ UNCHANGED <<client, dataset, geocode_cache, call, batch, procs>>
            /\ UNCHANGED <<now, files, safetyDoc, geoDoc, metaDoc, savedPayload, savedMeta, changed, nchanges, sv>>
            /\ UNCHANGED scoreVars

\* time passes
Wait ==
    \E d \in WaitSteps :
        /\ now + d <= MaxClock
        /\ now' = now + d
        /\ res' = MarkersRes("wait")
        /\ UNCHANGED <<files, safetyDoc, geoDoc, metaDoc, savedPayload, savedMeta, changed, nchanges, sv>>
        /\ UNCHANGED scoreVars /\ UNCHANGED geoVars

\* the three CSV files are installed again: written now, with the same sizes
InstallFiles ==
    LET installed == [p \in Paths |-> [InitFiles[p] EXCEPT !.mtime = now]]
    IN  /\ nchanges < MaxChanges
        /\ installed # files
        /\ nchanges' = nchanges + 1
        /\ files' = installed
        /\ changed' = TRUE
        /\ res' = MarkersRes("install_files")
        /\ UNCHANGED <<now, safetyDoc, geoDoc, metaDoc, savedPayload, savedMeta, sv>>
        /\ UNCHANGED scoreVars /\ UNCHANGED geoVars

NextMarkers ==
    \/ GetSafetyMarkers
    \/ ClearCache
    \/ RunGeocoding
    \/ Wait
    \/ InstallFiles

SpecMarkers == InitMarkers /\ [][NextMarkers]_vars

\* C27: the analysis is recomputed and saved only on a cache miss: once a request
\* has computed and saved an analysis, every later request within 24 hours with
\* unchanged source files uses the cached analysis, neither recomputing it nor
\* rewriting the document; this holds for every analysis, also one with zero
\* locations.
C27_RecomputedOnlyOnMiss ==
    [][(/\ res'.op = "get_safety_markers"
        /\ safetyDoc.kind = "object"
        /\ now - safetyDoc.timestamp.v <= MarkersMaxAgeHours
        /\ FileMeta(files) = savedMeta) =>
           (~res'.recomputed /\ safetyDoc' = safetyDoc)]_vars

\* C28: an address that geocode_all_addresses has added to DataProcessor's
\* geocode cache is available as marker coordinates on the next
\* get_safety_markers request, also when CacheManager holds a geocoded-addresses
\* document younger than 30 days.
C28_MarkersUseCurrentGeocodes ==
    res.op = "get_safety_markers" =>
        \A a \in DOMAIN load_geocode_cache(geocode_file) :
            a \in DOMAIN res.geocoded /\ res.geocoded[a] = load_geocode_cache(geocode_file)[a]

\* the documents a cache type selects
SelectedBy(cache_type) ==
    CASE cache_type = "safety_analysis" -> {"safety_analysis"}
      [] cache_type = "geocoded_addresses" -> {"geocoded_addresses"}
      [] cache_type = "all" -> {"safety_analysis", "geocoded_addresses", "metadata"}
      [] OTHER -> {}
\* the documents of the cache directory that exist
Existing(safety, geo, meta) ==
    (IF safety.kind # "absent" THEN {"safety_analysis"} ELSE {})
    \cup (IF geo.kind # "absent" THEN {"geocoded_addresses"} ELSE {})
    \cup (IF meta # << >> THEN {"metadata"} ELSE {})

\* C29: clear_cache(cache_type) removes exactly the selected documents that
\* exist, returns the names of exactly the documents it removed and leaves every
\* other document unchanged; after it the load function of each removed cache
\* returns None until the next save.
C29_ClearCacheFrame ==
    [][/\ res'.op = "clear_cache" =>
            LET removed == SelectedBy(res'.cache_type) \cap Existing(safetyDoc, geoDoc, metaDoc)
            IN  /\ Existing(safetyDoc', geoDoc', metaDoc') = Existing(safetyDoc, geoDoc, metaDoc) \ removed
                /\ {res'.cleared[j] : j \in 1..Len(res'.cleared)} = removed
                /\ Len(res'.cleared) = Cardinality(removed)
                /\ "safety_analysis" \notin removed => safetyDoc' = safetyDoc
                /\ "geocoded_addresses" \notin removed => geoDoc' = geoDoc
                /\ "metadata" \notin removed => metaDoc' = metaDoc
                /\ files' = files /\ geocode_file' = geocode_file
                /\ "safety_analysis" \in removed =>
                       load_safety_analysis(safetyDoc', files', now', MarkersMaxAgeHours).ret = NoneV
                /\ "geocoded_addresses" \in removed =>
                       load_geocoded_addresses(geoDoc', now', MarkersMaxAgeDays).ret = NoneV
       /\ (safetyDoc.kind = "absent" /\ res'.op # "get_safety_markers") =>
              /\ safetyDoc'.kind = "absent"
              /\ load_safety_analysis(safetyDoc', files', now', MarkersMaxAgeHours).ret = NoneV
       /\ (geoDoc.kind = "absent" /\ res'.op # "get_safety_markers") =>
              /\ geoDoc'.kind = "absent"
              /\ load_geocoded_addresses(geoDoc', now', MarkersMaxAgeDays).ret = NoneV]_vars

\* clear_cache('safety_analysis') has removed the analysis and left the
\* geocoded addresses and the metadata in place
C29_Witness ==
    /\ res.op = "clear_cache" /\ res.cache_type = "safety_analysis"
    /\ res.cleared = <<"safety_analysis">>
    /\ safetyDoc.kind = "absent"
    /\ geoDoc.kind = "object"
    /\ "safety_analysis" \in DOMAIN metaDoc

====
